---- MODULE Spec2Model ----
(***************************************************************************)
(* GeoDaily (src/script.js): the round selector, the distractor generator  *)
(* and the phase sequencer of the GeoDaily class, as a state machine.      *)
(*                                                                         *)
(* Strings the code searches with includes() (country names, codes, flag   *)
(* URLs) are sequences of one-character strings.  Stat strings are         *)
(* records [fmt, n]: fmt names the textual shape and n its digits, so      *)
(* parsing and formatting are distinct conversions.                        *)
(***************************************************************************)
EXTENDS Integers, Sequences, FiniteSets, Bags, TLC

VARIABLES
    phase,            \* this.phase
    currentData,      \* this.currentData: the live Round, or NULL
    countriesData,    \* this.countriesData
    dataLoad,         \* the fetch of data.json: "pending", "done", "failed"
    client,           \* this.client is set (a GeminiClient exists)
    difficulty,       \* value of the #difficulty-select element
    usedCities,       \* this.usedCities
    guessedCorrectly, \* this.guessedCorrectly
    wrongGuesses,     \* this.wrongGuesses
    hintedLayers,     \* this.hintedLayers
    hintLevel,        \* this.hintLevel
    flagDisabled,     \* flag images of the FLAG_GUESS screen that ignore clicks
    timers,           \* pending setTimeout callbacks, in the order they were set
    enrichCalls,      \* enrichGameData() calls suspended at their await
    roundSeq,         \* generateLocalGameData calls so far; names the Round a call creates
    trail,            \* phases set since startGame's callback showed a new Round
    hung,             \* the event loop is stuck inside a handler that never returns
    notice,           \* the toast the latest handler run showed, NoNotice if none
    controls,         \* the follow-up buttons and areas of the panel
    followUps,        \* generateFollowUp() calls suspended at their await
    quizRun,          \* the renderStatsQuiz() call whose container is in the panel
    panelNext,        \* the panel holds a button that a finished quiz appended
    advanceSet,       \* a setTimeout(() => this.nextPhase(), ...) call was made
                      \* since the panel was last rendered
    optCall,          \* a makeOptions call: its arguments and what it returned
    jsonCall          \* an extractJSON call: its argument and its outcome

vars == <<phase, currentData, countriesData, dataLoad, client, difficulty,
          usedCities, guessedCorrectly, wrongGuesses, hintedLayers, hintLevel,
          flagDisabled, timers, enrichCalls, roundSeq, trail, hung, notice,
          controls, followUps, quizRun, panelNext, advanceSet, optCall, jsonCall>>

(***************************************************************************)
(* Bounds of the model.                                                    *)
(***************************************************************************)
MaxRounds == 2     \* Round objects created in one behaviour
MaxTimers == 2     \* setTimeout callbacks pending at once
MaxPeriod == 3     \* period of the Math.random streams fed to makeOptions
MaxCalls == 1      \* generateLocalGameData calls in one behaviour of SpecSel
MaxHints == 4      \* hint requests in one visit of COUNTRY_GUESS in SpecHint
MaxText == 4       \* characters of a text given to extractJSON

NULL == [null |-> TRUE]   \* null where an object is expected
NoOptions == <<>>         \* null where an array is expected

Range(s) == {s[i] : i \in 1..Len(s)}

Includes(s, t) ==
    \E i \in 0..(Len(s) - Len(t)) : SubSeq(s, i + 1, i + Len(t)) = t

(***************************************************************************)
(* extractJSON (src/gemini.js).  A text is a sequence of the characters    *)
(* "{", "}", "1" and "x".  Of these texts JSON.parse accepts the empty     *)
(* object "{}" and the numbers "1", "11", ...; every other one is a        *)
(* SyntaxError.                                                            *)
(***************************************************************************)
Chars == {"{", "}", "1", "x"}

\* the outcomes of a call: a returned value, or an exception
Returns(value) == [threw |-> FALSE, value |-> value, error |-> ""]
Throws(what) == [threw |-> TRUE, value |-> <<>>, error |-> what]

\* JSON.parse(text) for a text over Chars
JsonParse(text) ==
    IF text = <<"{", "}">> THEN Returns(text)
    ELSE IF text # <<>> /\ \A i \in 1..Len(text) : text[i] = "1"
    THEN Returns(text)
    ELSE Throws("SyntaxError")

\* text.indexOf(c) and text.lastIndexOf(c), 0-based, -1 when c is not in text
TextIndexOf(text, c) ==
    LET at == {i \in 1..Len(text) : text[i] = c}
    IN  IF at = {} THEN -1
        ELSE (CHOOSE i \in at : \A j \in at : i <= j) - 1

TextLastIndexOf(text, c) ==
    LET at == {i \in 1..Len(text) : text[i] = c}
    IN  IF at = {} THEN -1
        ELSE (CHOOSE i \in at : \A j \in at : i >= j) - 1

\* text.substring(a, b): both ends are clamped to 0..length and swapped when
\* a > b
Substring(text, a, b) ==
    LET Clamp(x) == IF x < 0 THEN 0 ELSE IF x > Len(text) THEN Len(text) ELSE x
        lo == IF Clamp(a) <= Clamp(b) THEN Clamp(a) ELSE Clamp(b)
        hi == IF Clamp(a) <= Clamp(b) THEN Clamp(b) ELSE Clamp(a)
    IN  SubSeq(text, lo + 1, hi)

\* a slice that is empty when a > b
SubstringOrdered(text, a, b) == SubSeq(text, a + 1, b)

\* extractJSON(text)
ExtractJSON(text) ==
    IF ~JsonParse(text).threw THEN JsonParse(text)
    ELSE LET start == TextIndexOf(text, "{")
             end == TextLastIndexOf(text, "}")
         IN  IF start # -1 /\ end # -1
             THEN LET jsonStr == Substring(text, start, end + 1)
                  IN  IF ~JsonParse(jsonStr).threw THEN JsonParse(jsonStr)
                      ELSE Throws("SyntaxError")
             ELSE Throws("No JSON found in response")

\* the texts extractJSON is called with
Texts == UNION {[1..n -> Chars] : n \in 0..MaxText}

NoText == [text |-> <<>>, called |-> FALSE, out |-> Throws("")]

(***************************************************************************)
(* Stat strings.  fmt: "grouped" is a comma-grouped integer ("1,234"),     *)
(* "plain" the same digits without commas, "km2" a grouped integer with    *)
(* the " km²" suffix, "billion"/"trillion" a "$X.Y Billion"/"$X.Y          *)
(* Trillion" with n = X.Y in tenths, "text" any text parseFloat rejects,   *)
(* and the sentinels are "Unknown", "Data Pending", "N/A" and "empty"      *)
(* (null or the empty string).                                             *)
(***************************************************************************)
Str(fmt, n) == [fmt |-> fmt, n |-> n]

NaN == -1

\* parseFloat of the string stripped by the replace chain, in tenths
ParseFloatClean(valStr) ==
    CASE valStr.fmt \in {"grouped", "plain", "km2"} -> valStr.n * 10
      [] valStr.fmt \in {"billion", "trillion"}     -> valStr.n
      [] OTHER                                      -> NaN

IsSentinel(valStr) == valStr.fmt \in {"empty", "Unknown", "Data Pending", "N/A"}

HasMagnitude(valStr) == valStr.fmt \in {"billion", "trillion"}

\* val after the isMoney scaling, in units of 10^8 dollars (a tenth of a Billion)
MoneyVal(valStr) ==
    IF valStr.fmt = "trillion" THEN valStr.n * 1000 ELSE valStr.n

MaxAttempts == 100
MaxOptions == 4

\* x.toFixed(1) of the quotient a / d, in tenths: the nearest tenth, ties up
ToFixed1(a, d) == (2 * a + d) \div (2 * d)

TrillionAbove == 1000

\* the money branch of the loop body: billions = fakeVal / 1e9, p = 100 * vary
MoneyStr(valStr, p) ==
    IF HasMagnitude(valStr)
    THEN LET x == MoneyVal(valStr) * p     \* billions * 1000
         IN  IF x > TrillionAbove * 1000
             THEN Str("trillion", ToFixed1(x, 100000))
             ELSE Str("billion", ToFixed1(x, 100))
    ELSE Str("billion", 0)   \* val is a few dollars: billions.toFixed(1) is "0.0"

\* the other branch: Math.floor(fakeVal).toLocaleString(), and the suffix
PlainStr(valStr, p) ==
    LET fl == (ParseFloatClean(valStr) * p) \div 1000
    IN  Str(IF valStr.fmt = "km2" THEN "km2" ELSE "grouped", fl)

FakeStr(valStr, isMoney, p) ==
    IF isMoney THEN MoneyStr(valStr, p) ELSE PlainStr(valStr, p)

\* the test without its options.includes(fakeStr) half
AcceptsDuplicates(options, fakeStr) == fakeStr # Str("grouped", 0)

Accepts(options, fakeStr) ==
    fakeStr \notin Range(options) /\ fakeStr # Str("grouped", 0)

\* the while loop; vary is the stream of 100 * (1 + (Math.random() * 0.8 - 0.4))
RECURSIVE MakeOptionsLoop(_, _, _, _, _)
MakeOptionsLoop(options, attempts, valStr, isMoney, vary) ==
    IF Len(options) < MaxOptions /\ attempts < MaxAttempts
    THEN LET p == vary[(attempts % Len(vary)) + 1]
             fakeStr == FakeStr(valStr, isMoney, p)
         IN  MakeOptionsLoop(IF Accepts(options, fakeStr)
                                 THEN Append(options, fakeStr) ELSE options,
                             attempts + 1, valStr, isMoney, vary)
    ELSE [options |-> options, attempts |-> attempts]

\* seq.sort(() => Math.random() - 0.5): the order the comparator's draws give;
\* key ranks the positions
Shuffle(seq, key) ==
    LET n == Len(seq)
        pos(i) == 1 + Cardinality({j \in 1..n : key[j] < key[i]})
    IN  [r \in 1..n |-> seq[CHOOSE i \in 1..n : pos(i) = r]]

\* the test with only its sentinel half
AbsentSentinel(valStr) == IsSentinel(valStr)

Absent(valStr) ==
    \/ IsSentinel(valStr)
    \/ ParseFloatClean(valStr) = NaN
    \/ ParseFloatClean(valStr) = 0

\* makeOptions(valStr, isMoney); rnd = [vary, key] are its Math.random draws.
\* ret is the returned array (NoOptions for null), attempts the loop counter at exit.
MakeOptions(valStr, isMoney, rnd) ==
    IF Absent(valStr)
    THEN [ret |-> NoOptions, attempts |-> 0]
    ELSE LET l == MakeOptionsLoop(<<valStr>>, 0, valStr, isMoney, rnd.vary)
         IN  [ret |-> Shuffle(l.options, rnd.key), attempts |-> l.attempts]

(***************************************************************************)
(* The dataset (data.json): countries with their cities.                   *)
(***************************************************************************)
Unknown == Str("Unknown", 0)

City(name, isCapital, pop) ==
    [name |-> name, is_capital |-> isCapital, pop |-> pop]

Country(name, code, diff, stats, cities) ==
    [name |-> name, code |-> code, difficulty |-> diff, stats |-> stats,
     cities |-> cities]

Stats(population, area, gdp) ==
    [population |-> population, area |-> area, gdp |-> gdp]

NoStats == Stats(Unknown, Unknown, Str("Data Pending", 0))

Difficulties == {"easy", "medium", "hard", "extreme"}

\* a pool in which every city takes the tier of its country
CityDifficultyFlat(country, city) == country.difficulty

\* cityDifficulty of the forEach body
CityDifficulty(country, city) ==
    IF ~city.is_capital
    THEN CASE country.difficulty = "easy"   -> "medium"
           [] country.difficulty = "medium" -> "hard"
           [] country.difficulty = "hard"   -> "extreme"
           [] OTHER                         -> country.difficulty
    ELSE country.difficulty

HintRadius(country, city) ==
    IF city.is_capital
    THEN CASE country.difficulty = "easy"   -> 100000
           [] country.difficulty = "medium" -> 80000
           [] OTHER                         -> 60000
    ELSE CASE country.difficulty = "easy"   -> 50000
           [] country.difficulty = "medium" -> 40000
           [] OTHER                         -> 30000

SnapRadius(country, city) ==
    IF city.is_capital
    THEN CASE country.difficulty = "easy"   -> 12000
           [] country.difficulty = "medium" -> 10000
           [] OTHER                         -> 8000
    ELSE CASE country.difficulty = "easy"   -> 6000
           [] country.difficulty = "medium" -> 4000
           [] OTHER                         -> 2500

Candidate(country, city) ==
    [countryRef |-> country, city |-> city,
     calculatedDifficulty |-> CityDifficulty(country, city),
     hintRadius |-> HintRadius(country, city),
     snapRadius |-> SnapRadius(country, city)]

\* cityPool: every (country, city) pair, in dataset order
RECURSIVE CityPool(_)
CityPool(data) ==
    IF data = <<>> THEN <<>>
    ELSE [i \in 1..Len(Head(data).cities) |->
              Candidate(Head(data), Head(data).cities[i])]
         \o CityPool(Tail(data))

FilterTier(pool, tier) ==
    LET Test(c) == c.calculatedDifficulty = tier
    IN  SelectSeq(pool, Test)

\* candidates: the requested tier, else tier "medium"
Candidates(pool, diff) ==
    LET candidates == FilterTier(pool, diff)
    IN  IF Len(candidates) = 0 THEN FilterTier(pool, "medium") ELSE candidates

\* `${country.name}:${city.name}`
UsedKey(countryName, cityName) == countryName \o <<":">> \o cityName

CandKey(c) == UsedKey(c.countryRef.name, c.city.name)

Available(candidates, used) ==
    LET Test(c) == CandKey(c) \notin used
    IN  SelectSeq(candidates, Test)

\* selection: the unused candidates, else all candidates, else the whole pool
Selection(pool, diff, used) ==
    LET candidates == Candidates(pool, diff)
        available  == Available(candidates, used)
        selection  == IF Len(available) > 0 THEN available ELSE candidates
    IN  IF Len(selection) = 0 THEN pool ELSE selection

FlagUrl(code) ==
    <<"h","t","t","p","s",":","/","/","f","l","a","g","c","d","n",".","c","o","m",
      "/","w","3","2","0","/">> \o code \o <<".","p","n","g">>

\* the test without its flagOptions.find(...) half
FlagEligibleRepeats(country, flagOptions, r) == r.code # country.code

\* the test that lets the flag loop push country r
FlagEligible(country, flagOptions, r) ==
    /\ r.code # country.code
    /\ ~\E f \in Range(flagOptions) : Includes(f.url, r.code)

\* the flag loop.  picks is the stream of Math.floor(Math.random() * length)
\* draws, repeated cyclically; it names every index of the dataset.  k counts
\* the iterations, idle those since the last push.  When a whole period of the
\* stream pushes nothing the array no longer changes and the loop has no exit
\* on this stream: the result is NoExit.
NoExit == <<>>

RECURSIVE FlagLoop(_, _, _, _, _, _)
FlagLoop(data, country, flagOptions, picks, k, idle) ==
    IF Len(flagOptions) >= MaxOptions THEN flagOptions
    ELSE IF idle >= Len(picks) THEN NoExit
    ELSE LET r == data[picks[(k % Len(picks)) + 1]]
         IN  IF FlagEligible(country, flagOptions, r)
             THEN FlagLoop(data, country,
                           Append(flagOptions,
                                  [url |-> FlagUrl(r.code), is_correct |-> FALSE]),
                           picks, k + 1, 0)
             ELSE FlagLoop(data, country, flagOptions, picks, k + 1, idle + 1)

\* the pick streams of the model: the dataset's indices upwards, downwards,
\* or upwards with every draw coming twice
Picks(data, dir) ==
    CASE dir = "up"    -> [i \in 1..Len(data) |-> i]
      [] dir = "down"  -> [i \in 1..Len(data) |-> Len(data) + 1 - i]
      [] dir = "twice" -> [i \in 1..(2 * Len(data)) |-> (i + 1) \div 2]

QuizItem(key, correct, opts) ==
    IF opts.ret = NoOptions THEN <<>>
    ELSE <<[key |-> key, correct |-> correct, options |-> opts.ret]>>

\* countryQuiz: the entries in insertion order, absent stats left out
CountryQuiz(country, rnd) ==
    QuizItem("population", country.stats.population,
             MakeOptions(country.stats.population, FALSE, rnd))
    \o QuizItem("area", country.stats.area,
                MakeOptions(country.stats.area, FALSE, rnd))
    \o QuizItem("gdp", country.stats.gdp,
                MakeOptions(country.stats.gdp, TRUE, rnd))

CityQuiz(city, rnd) ==
    QuizItem("population", city.pop, MakeOptions(city.pop, FALSE, rnd))

Text(txt) == [txt |-> txt, about |-> <<>>]

LoadingPerson ==
    [name |-> Text("Loading..."), role |-> Text("Famous Figure"),
     bio |-> Text("We are finding a local legend..."),
     fact |-> Text("Did you know? loading...")]

\* the object generateLocalGameData returns; id is the object's identity
Round(id, result, flagOptions, rnd) ==
    [id |-> id,
     country |-> result.countryRef.name,
     country_code |-> result.countryRef.code,
     flag_options |-> Shuffle(flagOptions, rnd.key),
     stats_quiz |-> CountryQuiz(result.countryRef, rnd),
     city |-> [name |-> result.city.name,
               stats_quiz |-> CityQuiz(result.city, rnd),
               hint_radius |-> result.hintRadius,
               snap_radius |-> result.snapRadius],
     historical_fact |-> Text("Loading interesting history..."),
     person |-> LoadingPerson,
     history |-> Text("Loading context...")]

\* the call left out
SaveUsageNone(used, key) == used

\* this.usedCities.add(key), persisted
SaveUsage(used, key) == used \cup {key}

\* generateLocalGameData(difficulty) on dataset data with usedCities = used:
\* every outcome [ret, used, hang] for the draws in Rnds.  hang: the flag loop
\* never exits, so the call does not return.
GenerateLocalGameData(data, diff, used, id, Rnds) ==
    IF Len(data) = 0
    THEN {[ret |-> NULL, used |-> used, hang |-> FALSE]}
    ELSE LET selection == Selection(CityPool(data), diff, used)
         IN  IF Len(selection) = 0
             THEN {[ret |-> NULL, used |-> used, hang |-> FALSE]}
             ELSE { LET result == pr[1]
                        rnd    == pr[2]
                        used2  == SaveUsage(used, CandKey(result))
                        first  == <<[url |-> FlagUrl(result.countryRef.code),
                                     is_correct |-> TRUE]>>
                        flagOptions == FlagLoop(data, result.countryRef, first,
                                                Picks(data, rnd.picks), 0, 0)
                    IN  IF flagOptions = NoExit
                        THEN [ret |-> NULL, used |-> used2, hang |-> TRUE]
                        ELSE [ret |-> Round(id, result, flagOptions, rnd),
                              used |-> used2, hang |-> FALSE]
                    : pr \in Range(selection) \X Rnds }

(***************************************************************************)
(* Inputs of the model.                                                    *)
(***************************************************************************)
\* 100 * vary, for vary in [0.6, 1.4)
VarySet == {60, 80, 100, 125, 139}

RECURSIVE Streams(_)
Streams(n) ==
    IF n = 0 THEN {<<>>}
    ELSE {Append(s, p) : s \in Streams(n - 1), p \in VarySet}

\* the periodic Math.random streams of period 1..MaxPeriod
VaryStreams == UNION {Streams(n) : n \in 1..MaxPeriod}

ShuffleKeys == {<<1, 2, 3, 4>>, <<2, 4, 1, 3>>}

RndOpt == [vary : VaryStreams, key : ShuffleKeys]

\* the stat strings makeOptions is called with
PlainInputs ==
    {Str("grouped", n) : n \in {0, 1, 2, 7, 1000, 1000000}}
    \cup {Str("plain", 1000)}
    \cup {Str("km2", n) : n \in {0, 1, 5, 450}}
    \cup {Str(f, 0) : f \in {"empty", "Unknown", "Data Pending", "N/A", "text"}}

MoneyInputs ==
    {Str("billion", n) : n \in {0, 1, 5, 20, 8000, 9000}}
    \cup {Str("trillion", n) : n \in {10, 20}}
    \cup {Str(f, 0) : f \in {"empty", "Unknown", "Data Pending", "N/A", "text"}}

OptInputs ==
    {[valStr |-> v, isMoney |-> FALSE] : v \in PlainInputs}
    \cup {[valStr |-> v, isMoney |-> TRUE] : v \in MoneyInputs}

NoCall == [valStr |-> Unknown, isMoney |-> FALSE, called |-> FALSE,
           ret |-> NoOptions, attempts |-> 0]

\* countries of the datasets
Capital(name, pop) == City(name, TRUE, pop)
Town(name, pop) == City(name, FALSE, pop)

Varos ==
    Country(<<"V","a","r","o","s">>, <<"v","a">>, "easy", NoStats,
            <<Capital(<<"V","a","r","o","s","t","o","n">>, Str("grouped", 1000000))>>)
Aland ==
    Country(<<"A","l">>, <<"a","l">>, "easy",
            Stats(Str("grouped", 7), Str("km2", 450), Str("trillion", 20)),
            <<Capital(<<"A","1">>, Unknown), Town(<<"A","2">>, Str("grouped", 1000))>>)
\* no statistic of the country or of its capital has data
Alto ==
    Country(<<"A","l">>, <<"a","l">>, "easy", NoStats,
            <<Capital(<<"A","1">>, Unknown)>>)
\* one statistic of the country has data, the population of its capital none
Bolt ==
    Country(<<"B","o">>, <<"b","o">>, "medium",
            Stats(Str("grouped", 7), Unknown, Str("Data Pending", 0)),
            <<Capital(<<"B","1">>, Unknown)>>)
Borg ==
    Country(<<"B","o">>, <<"b","o">>, "medium", NoStats,
            <<Capital(<<"B","1">>, Str("grouped", 1000)), Town(<<"B","2">>, Unknown)>>)
Cato ==
    Country(<<"C","a">>, <<"c","a">>, "hard", NoStats,
            <<Capital(<<"C","1">>, Unknown), Town(<<"C","2">>, Unknown)>>)
Dorn ==
    Country(<<"D","o">>, <<"d","o">>, "extreme", NoStats,
            <<Capital(<<"D","1">>, Unknown)>>)
Eire ==
    Country(<<"E","i">>, <<"e","i">>, "hard", NoStats,
            <<Capital(<<"E","1">>, Unknown)>>)
Fars ==
    Country(<<"F","a">>, <<"f","a">>, "hard", NoStats,
            <<Capital(<<"F","1">>, Unknown)>>)
Gobi ==
    Country(<<"G","o">>, <<"g","o">>, "hard", NoStats,
            <<Capital(<<"G","1">>, Unknown)>>)
\* an extreme country with a city that is not its capital
Dune ==
    Country(<<"D","u">>, <<"d","u">>, "extreme", NoStats,
            <<Capital(<<"D","3">>, Unknown), Town(<<"D","4">>, Unknown)>>)
\* a country whose code occurs in "flagcdn.com"
Colo ==
    Country(<<"C","o">>, <<"c","o">>, "medium", NoStats,
            <<Capital(<<"C","3">>, Unknown)>>)
Void ==
    Country(<<"V","o">>, <<"v","o">>, "easy", NoStats, <<>>)
\* stats that are zero, and a city population "N/A"
Zero ==
    Country(<<"Z","e">>, <<"z","e">>, "easy",
            Stats(Str("grouped", 0), Str("km2", 0), Str("billion", 0)),
            <<Capital(<<"Z","1">>, Str("N/A", 0))>>)
\* stats that are text, empty and "N/A", and a city population of zero
Odd ==
    Country(<<"O","d">>, <<"o","d">>, "medium",
            Stats(Str("text", 0), Str("empty", 0), Str("N/A", 0)),
            <<Capital(<<"O","1">>, Str("grouped", 0))>>)

DataMixed == <<Aland, Borg, Cato, Dorn>>    \* every tier has a candidate
DataNoEasy == <<Borg, Cato, Dorn, Eire>>    \* no easy candidate, two medium ones
DataHard == <<Cato, Eire, Fars, Gobi>>      \* hard and extreme candidates only
DataCo == <<Varos, Colo, Dorn, Eire>>       \* four countries, one with code "co"
DataVaros == <<Varos>>                      \* a single country
DataVoid == <<Void>>                        \* a country without cities
DataEmpty == <<>>
DataExtreme == <<Dune, Eire, Fars, Gobi>>   \* a town of an extreme country
DataOdd == <<Zero, Odd, Aland, Borg>>       \* stats without data among valid ones
\* one easy and one medium candidate
DataPlay == <<Alto, Bolt, Cato, Dorn>>

Datasets ==
    {DataMixed, DataNoEasy, DataHard, DataCo, DataOdd, DataVaros, DataVoid,
     DataEmpty, DataExtreme}

AllKeys(data) == {CandKey(c) : c \in Range(CityPool(data))}

\* the draws of one generateLocalGameData call
RndSel ==
    [vary : {<<60, 80, 139>>, <<100>>}, key : {<<2, 4, 1, 3>>},
     picks : {"up", "down", "twice"}]

(***************************************************************************)
(* The phase sequencer.  g is the GeoDaily object: a record of the fields  *)
(* the handlers read and write.                                            *)
(***************************************************************************)
\* the array with STATS_COUNTRY and CITY_FIND in each other's place
PhasesSwapped ==
    <<"COUNTRY_GUESS", "FLAG_GUESS", "CITY_FIND", "STATS_COUNTRY", "STATS_CITY",
      "HISTORICAL_FACT", "PERSON_GUESS", "HISTORY">>

\* the phases array of nextPhase
Phases ==
    <<"COUNTRY_GUESS", "FLAG_GUESS", "STATS_COUNTRY", "CITY_FIND", "STATS_CITY",
      "HISTORICAL_FACT", "PERSON_GUESS", "HISTORY">>

\* seq.indexOf(x), 0-based, -1 when x is not in seq
IndexOf(seq, x) ==
    IF \E i \in 1..Len(seq) : seq[i] = x
    THEN (CHOOSE i \in 1..Len(seq) : seq[i] = x) - 1
    ELSE -1

Remove(seq, i) == SubSeq(seq, 1, i - 1) \o SubSeq(seq, i + 1, Len(seq))

\* the trail after the phase is set to p; an empty trail stays empty
Visit(tr, p) == IF tr = <<>> THEN <<>> ELSE Append(tr, p)

RoundKey(round) == UsedKey(round.country, round.city.name)

\* the id of the Round that is live, 0 when there is none
RoundOf(data) == IF data = NULL THEN 0 ELSE data.id

\* setTimeout(cb, delay); round is the Round that is live at the call
SetTimeout(g, cb, delay) ==
    [g EXCEPT !.timers = Append(@, [cb |-> cb, delay |-> delay,
                                    round |-> RoundOf(g.currentData)]),
              !.advanceSet = @ \/ cb = "nextPhase"]

ResetAllGeoStyles(g) == [g EXCEPT !.wrongGuesses = {}, !.hintedLayers = {}]

Kinds == {"MORE_INFO", "OTHER_PERSON", "HISTORY_DEEP_DIVE"}

Areas == {"person-dynamic-area", "history-dynamic-area"}

\* a panel with no follow-up button and no dynamic area
NoControls == [c \in Kinds \cup Areas |-> "none"]

\* the buttons and areas the innerHTML of a phase creates
Controls(ph) ==
    [c \in Kinds \cup Areas |->
        CASE ph = "PERSON_GUESS" /\ c \in {"MORE_INFO", "OTHER_PERSON"} -> "idle"
          [] ph = "PERSON_GUESS" /\ c = "person-dynamic-area" -> "empty"
          [] ph = "HISTORY" /\ c = "HISTORY_DEEP_DIVE" -> "idle"
          [] ph = "HISTORY" /\ c = "history-dynamic-area" -> "empty"
          [] OTHER -> "none"]

\* p.innerHTML = '' takes the buttons of the suspended handlers out of the page
Detach(calls) == [i \in 1..Len(calls) |-> [calls[i] EXCEPT !.attached = FALSE]]

\* the closure of a renderStatsQuiz(container, quizData, onComplete) call:
\* which and round name quizData, keys is Object.keys(quizData), current the
\* counter, locked the disabled state of the option buttons; shown and
\* answered list the items presented and answered so far and completed counts
\* the onComplete() calls
QuizRunner(which, round, quiz) ==
    [which |-> which, round |-> round,
     keys |-> [i \in 1..Len(quiz) |-> quiz[i].key],
     current |-> 0, locked |-> FALSE, shown |-> <<>>, answered |-> <<>>,
     completed |-> 0]

\* no quiz container in the panel
NoQuiz == QuizRunner("none", 0, <<>>)

\* showQuestion() as the closure sees it: onComplete() past the last key,
\* else a new list of enabled option buttons
RunnerShow(run) ==
    IF run.current >= Len(run.keys)
    THEN [run EXCEPT !.completed = @ + 1]
    ELSE [run EXCEPT !.locked = FALSE,
                     !.shown = Append(@, run.keys[run.current + 1])]

\* an onclick that leaves the option buttons enabled
QuizClickOpen(run) ==
    [run EXCEPT !.answered = Append(@, run.keys[run.current + 1])]

\* the onclick of an option button: every button of the list is disabled
QuizClick(run) ==
    [run EXCEPT !.locked = TRUE,
                !.answered = Append(@, run.keys[run.current + 1])]

\* p.innerHTML = '' takes the quiz container out of the page: the runners
\* whose timer is pending go on without it
DetachRunners(tms) ==
    [i \in 1..Len(tms) |->
        IF tms[i].cb = "showQuestion" THEN [tms[i] EXCEPT !.live = FALSE]
        ELSE tms[i]]

\* startGame() up to its setTimeout; the callback is the step TimerStartGame.
\* Its renderPhase() call empties the panel and shows the loader.
StartGame(g) ==
    SetTimeout(ResetAllGeoStyles([g EXCEPT !.phase = "LOADING", !.trail = <<>>,
                                           !.flagDisabled = {},
                                           !.controls = NoControls,
                                           !.followUps = Detach(@),
                                           !.timers = DetachRunners(@),
                                           !.quizRun = NoQuiz,
                                           !.panelNext = FALSE,
                                           !.advanceSet = FALSE]),
               "startGame", 100)

\* showQuestion() for question current (1-based): its options are sorted in place
ShowQuestion(quiz, current, key) ==
    IF current > Len(quiz) THEN quiz
    ELSE [quiz EXCEPT ![current].options = Shuffle(@, key)]

\* a test that finds no quiz map empty
NeverEmpty(quiz) == Len(quiz) < 0

\* Object.keys(quiz).length === 0
QuizEmpty(quiz) == Len(quiz) = 0

\* an entry that leaves the hints of the round before
EnterKeepingHints(p) ==
    [p EXCEPT !.guessedCorrectly = FALSE, !.wrongGuesses = {}]

\* case 'COUNTRY_GUESS' of renderPhase(): the guess-tracking state is reset
EnterCountryGuess(p) ==
    [p EXCEPT !.guessedCorrectly = FALSE, !.wrongGuesses = {},
              !.hintedLayers = {}, !.hintLevel = 0]

RECURSIVE NextPhase(_, _)
RECURSIVE RenderPhase(_, _)

\* renderPhase(); key is the order its sort() call draws.  p is the panel
\* emptied first (p.innerHTML = ''), which removes the flag images.
RenderPhase(g, key) ==
    LET p == [g EXCEPT !.flagDisabled = {},
                       !.controls = IF g.currentData = NULL THEN NoControls
                                    ELSE Controls(g.phase),
                       !.followUps = Detach(@),
                       !.timers = DetachRunners(@),
                       !.quizRun = NoQuiz,
                       !.panelNext = FALSE,
                       !.advanceSet = FALSE]
    IN  IF p.phase # "LOADING" /\ p.currentData = NULL THEN p
        ELSE CASE p.phase = "COUNTRY_GUESS" -> EnterCountryGuess(p)
               [] p.phase = "FLAG_GUESS" ->
                      [p EXCEPT !.currentData.flag_options = Shuffle(@, key)]
               [] p.phase = "STATS_COUNTRY" ->
                      IF QuizEmpty(p.currentData.stats_quiz)
                      THEN NextPhase(p, key)
                      ELSE [p EXCEPT !.currentData.stats_quiz =
                                         ShowQuestion(@, 1, key),
                                     !.quizRun =
                                         RunnerShow(QuizRunner(
                                             "country", p.currentData.id,
                                             p.currentData.stats_quiz))]
               [] p.phase = "STATS_CITY" ->
                      IF QuizEmpty(p.currentData.city.stats_quiz)
                      THEN NextPhase(p, key)
                      ELSE [p EXCEPT !.currentData.city.stats_quiz =
                                         ShowQuestion(@, 1, key),
                                     !.quizRun =
                                         RunnerShow(QuizRunner(
                                             "city", p.currentData.id,
                                             p.currentData.city.stats_quiz))]
               [] OTHER -> p

\* nextPhase()
NextPhase(g, key) ==
    LET currentIdx == IndexOf(Phases, g.phase)
    IN  IF currentIdx < Len(Phases) - 1
        THEN RenderPhase([g EXCEPT !.phase = Phases[currentIdx + 2],
                                   !.trail = IF currentIdx = -1 THEN <<>>
                                             ELSE Visit(@, Phases[currentIdx + 2])],
                         key)
        ELSE [StartGame(g) EXCEPT !.trail = Visit(g.trail, "LOADING")]

\* enrichGameData() up to its await: the calls in flight afterwards
EnrichGameData(cl, data, calls) ==
    IF ~cl \/ data = NULL THEN calls
    ELSE Append(calls, [round |-> data.id, about |-> RoundKey(data)])

\* what the enrichment service answers about a country and city
AiText(txt, about) == [txt |-> txt, about |-> about]

AiPerson(about) ==
    [name |-> AiText("name", about), role |-> AiText("role", about),
     bio |-> AiText("bio", about), fact |-> AiText("fact", about)]

\* a merge that takes the answer for the whole Round: the quiz map is lost
EnrichMergeAll(data, about) ==
    [data EXCEPT !.person = AiPerson(about),
                 !.history = AiText("history", about),
                 !.historical_fact = AiText("historical_fact", about),
                 !.stats_quiz = <<>>]

\* the try branch of enrichGameData after the await
EnrichMerge(data, about) ==
    [data EXCEPT !.person = AiPerson(about),
                 !.history = AiText("history", about),
                 !.historical_fact = AiText("historical_fact", about)]

\* the catch branch
EnrichFailed(data) ==
    LET d == [data EXCEPT !.historical_fact = Text("Could not load history."),
                          !.history = Text("Could not load history.")]
    IN  IF d.person.name = Text("Loading...")
        THEN [d EXCEPT !.person.name = Text("Unknown"),
                       !.person.bio = Text("Could not fetch data.")]
        ELSE d

\* s.toUpperCase()
LowerCase == <<"a","b","c","d","e","f","g","h","i","j","k","l","m",
               "n","o","p","q","r","s","t","u","v","w","x","y","z">>
UpperCase == <<"A","B","C","D","E","F","G","H","I","J","K","L","M",
               "N","O","P","Q","R","S","T","U","V","W","X","Y","Z">>

ToUpperCase(s) ==
    [i \in 1..Len(s) |->
        IF \E k \in 1..Len(LowerCase) : LowerCase[k] = s[i]
        THEN UpperCase[CHOOSE k \in 1..Len(LowerCase) : LowerCase[k] = s[i]]
        ELSE s[i]]

\* a GeoJSON feature of the map: its layer's _featureId, properties.name,
\* id and properties.ISO_A2
Feature(fid, name, id, iso) == [fid |-> fid, name |-> name, id |-> id, iso |-> iso]

Features ==
    {Feature(1, <<"A","l">>, <<"A","L","A">>, <<"A","L">>),
     Feature(2, <<"B","o">>, <<"B","O","L">>, <<"B","O">>),
     Feature(3, <<"A","l","x">>, <<"A","L","X">>, <<"X","X">>)}

\* isCorrect of handleGeoClick
IsCorrect(data, feature) ==
    LET clickedName == feature.name
        targetCode == ToUpperCase(data.country_code)
        targetName == ToUpperCase(data.country)
    IN  IF ToUpperCase(clickedName) = targetName \/ feature.id = targetCode
        THEN TRUE
        ELSE \/ feature.iso = targetCode
             \/ Includes(ToUpperCase(clickedName), targetName)
             \/ Includes(targetName, ToUpperCase(clickedName))

\* the layers the second hint always adds: those of the target
TargetLayers(data) ==
    {f.fid : f \in {h \in Features : \/ h.iso = ToUpperCase(data.country_code)
                                     \/ h.name = data.country}}

\* showToast(msg): the text shown, with the value interpolated into it
Toast(msg, arg) == [msg |-> msg, arg |-> arg]

NoNotice == Toast("", <<>>)

\* Math.round(d / 1000) for a distance d >= 0
RoundKm(d) == (d + 500) \div 1000

(***************************************************************************)
(* Initial values of the GeoDaily object (the constructor).                *)
(***************************************************************************)
InitSequencer ==
    /\ phase = "INTRO"
    /\ currentData = NULL
    /\ guessedCorrectly = FALSE
    /\ wrongGuesses = {}
    /\ hintedLayers = {}
    /\ hintLevel = 0
    /\ flagDisabled = {}
    /\ timers = <<>>
    /\ enrichCalls = <<>>
    /\ roundSeq = 0
    /\ trail = <<>>
    /\ hung = FALSE
    /\ notice = NoNotice
    /\ controls = NoControls
    /\ followUps = <<>>
    /\ quizRun = NoQuiz
    /\ panelNext = FALSE
    /\ advanceSet = FALSE

seqVars == <<phase, guessedCorrectly, wrongGuesses, hintedLayers, hintLevel,
             flagDisabled, timers, enrichCalls, trail, controls, followUps,
             quizRun, panelNext, advanceSet>>

coreVars == <<phase, currentData, countriesData, dataLoad, client, difficulty,
              usedCities, guessedCorrectly, wrongGuesses, hintedLayers,
              hintLevel, flagDisabled, timers, enrichCalls, roundSeq, trail, hung,
              notice, controls, followUps, quizRun, panelNext, advanceSet>>

(***************************************************************************)
(* SpecOpt: makeOptions alone, on every input of OptInputs.                *)
(***************************************************************************)
InitOpt ==
    /\ InitSequencer
    /\ countriesData = <<>>
    /\ dataLoad = "pending"
    /\ difficulty = "medium"
    /\ usedCities = {}
    /\ client = FALSE
    /\ jsonCall = NoText
    /\ \E in \in OptInputs :
           optCall = [NoCall EXCEPT !.valStr = in.valStr, !.isMoney = in.isMoney]

CallMakeOptions ==
    /\ ~optCall.called
    /\ \E rnd \in RndOpt :
           LET r == MakeOptions(optCall.valStr, optCall.isMoney, rnd)
           IN  optCall' = [optCall EXCEPT !.called = TRUE, !.ret = r.ret,
                                          !.attempts = r.attempts]
    /\ UNCHANGED <<coreVars, jsonCall>>

NextOpt == CallMakeOptions

SpecOpt == InitOpt /\ [][NextOpt]_vars

(***************************************************************************)
(* SpecJson: extractJSON alone, on every text of Texts.                    *)
(***************************************************************************)
InitJson ==
    /\ InitSequencer
    /\ countriesData = <<>>
    /\ dataLoad = "pending"
    /\ difficulty = "medium"
    /\ usedCities = {}
    /\ client = FALSE
    /\ optCall = NoCall
    /\ \E text \in Texts : jsonCall = [NoText EXCEPT !.text = text]

CallExtractJSON ==
    /\ ~jsonCall.called
    /\ jsonCall' = [jsonCall EXCEPT !.called = TRUE,
                                    !.out = ExtractJSON(jsonCall.text)]
    /\ UNCHANGED <<coreVars, optCall>>

NextJson == CallExtractJSON

SpecJson == InitJson /\ [][NextJson]_vars

(***************************************************************************)
(* SpecSel: generateLocalGameData alone, on every dataset of Datasets,     *)
(* every usedCities over the dataset's keys and every difficulty.          *)
(***************************************************************************)
InitSel ==
    /\ InitSequencer
    /\ countriesData \in Datasets
    /\ dataLoad = "done"
    /\ difficulty = "medium"
    /\ usedCities \in SUBSET AllKeys(countriesData)
    /\ client = FALSE
    /\ optCall = NoCall
    /\ jsonCall = NoText

CallGenerate ==
    /\ ~hung
    /\ roundSeq < MaxCalls
    /\ \E diff \in Difficulties :
       \E out \in GenerateLocalGameData(countriesData, diff, usedCities,
                                        roundSeq + 1, RndSel) :
           /\ difficulty' = diff
           /\ currentData' = out.ret
           /\ usedCities' = out.used
           /\ hung' = out.hang
    /\ roundSeq' = roundSeq + 1
    /\ UNCHANGED <<seqVars, countriesData, dataLoad, client, notice, optCall, jsonCall>>

NextSel == CallGenerate

SpecSel == InitSel /\ [][NextSel]_vars

(***************************************************************************)
(* Spec: the GeoDaily object from its construction on, driven by the       *)
(* dataset fetch, the controls of the page, the timers and the answers of  *)
(* the enrichment service.                                                 *)
(***************************************************************************)
MainDatasets == {DataPlay, DataVaros, DataEmpty}

DiffMain == {"easy", "medium"}

\* the draws of one generateLocalGameData call, and of one sort() of a render
RndMain == {[vary |-> <<60, 80, 139>>, key |-> <<2, 4, 1, 3>>, picks |-> "up"]}

KeysMain == {<<2, 1, 4, 3>>}

\* the layers near the random centre of the second hint
NearSets == {{2}}

Init ==
    /\ InitSequencer
    /\ countriesData = <<>>
    /\ dataLoad = "pending"
    /\ difficulty = "medium"
    /\ usedCities = {}
    /\ client = FALSE
    /\ optCall = NoCall
    /\ jsonCall = NoText

This ==
    [phase |-> phase, currentData |-> currentData,
     guessedCorrectly |-> guessedCorrectly, wrongGuesses |-> wrongGuesses,
     hintedLayers |-> hintedLayers, hintLevel |-> hintLevel,
     flagDisabled |-> flagDisabled, timers |-> timers, trail |-> trail,
     controls |-> controls, followUps |-> followUps, quizRun |-> quizRun,
     panelNext |-> panelNext, advanceSet |-> advanceSet]

Becomes(g) ==
    /\ phase' = g.phase
    /\ currentData' = g.currentData
    /\ guessedCorrectly' = g.guessedCorrectly
    /\ wrongGuesses' = g.wrongGuesses
    /\ hintedLayers' = g.hintedLayers
    /\ hintLevel' = g.hintLevel
    /\ flagDisabled' = g.flagDisabled
    /\ timers' = g.timers
    /\ trail' = g.trail
    /\ controls' = g.controls
    /\ followUps' = g.followUps
    /\ quizRun' = g.quizRun
    /\ panelNext' = g.panelNext
    /\ advanceSet' = g.advanceSet

thisVars == <<phase, currentData, guessedCorrectly, wrongGuesses, hintedLayers,
              hintLevel, flagDisabled, timers, trail, controls, followUps,
              quizRun, panelNext, advanceSet>>

Pending(cb) == {i \in 1..Len(timers) : timers[i].cb = cb}

\* the timer a setTimeout(() => this.nextPhase(), delay) call adds now
Advance(delay) ==
    [cb |-> "nextPhase", delay |-> delay, round |-> RoundOf(currentData)]

\* room for one more pending callback: a setTimeout or a call at its await
CanSchedule == Len(timers) + Len(enrichCalls) + Len(followUps) < MaxTimers

\* room for one more startGame(): its callback will run generateLocalGameData.
\* The player restarts while no answered question is waiting for its delay.
CanStart ==
    CanSchedule /\ Pending("showQuestion") = {} /\ roundSeq + Cardinality(Pending("startGame")) < MaxRounds

\* timer i is due before every timer set earlier with a longer delay only
CanFire(i) == \A j \in 1..(i - 1) : timers[j].delay > timers[i].delay

\* loadDataset(): the fetch of data.json resolves
DatasetLoaded ==
    /\ ~hung
    /\ notice' = NoNotice
    /\ dataLoad = "pending"
    /\ dataLoad' = "done"
    /\ \E data \in MainDatasets : countriesData' = data
    /\ IF phase = "INTRO" \/ currentData = NULL
       THEN CanStart /\ Becomes(StartGame(This))
       ELSE UNCHANGED thisVars
    /\ UNCHANGED <<client, difficulty, usedCities, enrichCalls, roundSeq, hung,
                   optCall, jsonCall>>

\* loadDataset(): the fetch fails
DatasetFailed ==
    /\ ~hung
    /\ dataLoad = "pending"
    /\ dataLoad' = "failed"
    /\ notice' = Toast("Critical Error: Failed to load game data.", <<>>)
    /\ UNCHANGED <<thisVars, countriesData, client, difficulty, usedCities,
                   enrichCalls, roundSeq, hung, optCall, jsonCall>>

\* the change listener of #difficulty-select
DifficultyChange ==
    /\ ~hung
    /\ notice' = NoNotice
    /\ CanStart
    /\ \E d \in DiffMain \ {difficulty} : difficulty' = d
    /\ Becomes(StartGame(This))
    /\ UNCHANGED <<countriesData, dataLoad, client, usedCities, enrichCalls,
                   roundSeq, hung, optCall, jsonCall>>

\* #next-btn
NextBtn ==
    /\ ~hung
    /\ notice' = NoNotice
    /\ CanStart
    /\ Becomes(StartGame(This))
    /\ UNCHANGED <<countriesData, dataLoad, client, difficulty, usedCities,
                   enrichCalls, roundSeq, hung, optCall, jsonCall>>

\* #demo-btn
DemoBtn ==
    /\ ~hung
    /\ notice' = NoNotice
    /\ currentData = NULL
    /\ CanStart
    /\ Becomes(StartGame(This))
    /\ UNCHANGED <<countriesData, dataLoad, client, difficulty, usedCities,
                   enrichCalls, roundSeq, hung, optCall, jsonCall>>

\* saveApiKey() with a key typed in
SaveApiKey ==
    /\ ~hung
    /\ notice' = NoNotice
    /\ client' = TRUE
    /\ CanSchedule
    /\ enrichCalls' = IF currentData # NULL /\ currentData.person.name.txt = ""
                      THEN EnrichGameData(TRUE, currentData, enrichCalls)
                      ELSE enrichCalls
    /\ UNCHANGED <<thisVars, countriesData, dataLoad, difficulty, usedCities,
                   roundSeq, hung, optCall, jsonCall>>

\* a callback that goes on whatever generateLocalGameData returned
GeneratedAlways(ret) == TRUE

\* the callback goes on past its if (!this.currentData) return
Generated(ret) == ret # NULL

\* the setTimeout callback of startGame()
TimerStartGame ==
    /\ ~hung
    /\ notice' = NoNotice
    /\ \E i \in Pending("startGame") :
       \E out \in GenerateLocalGameData(countriesData, difficulty, usedCities,
                                        roundSeq + 1, RndMain) :
       \E key \in KeysMain :
           /\ CanFire(i)
           /\ usedCities' = out.used
           /\ hung' = out.hang
           /\ IF out.hang
              THEN /\ Becomes([This EXCEPT !.timers = Remove(@, i)])
                   /\ UNCHANGED enrichCalls
              ELSE IF ~Generated(out.ret)
              THEN /\ Becomes([This EXCEPT !.timers = Remove(@, i),
                                           !.currentData = NULL])
                   /\ UNCHANGED enrichCalls
              ELSE /\ Becomes(RenderPhase([This EXCEPT !.timers = Remove(@, i),
                                                       !.currentData = out.ret,
                                                       !.phase = "COUNTRY_GUESS",
                                                       !.trail = <<"COUNTRY_GUESS">>],
                                          key))
                   /\ enrichCalls' = EnrichGameData(client, out.ret, enrichCalls)
    /\ roundSeq' = roundSeq + 1
    /\ UNCHANGED <<countriesData, dataLoad, client, difficulty, optCall, jsonCall>>

\* a setTimeout(() => this.nextPhase(), ...) callback
TimerNextPhase ==
    /\ ~hung
    /\ notice' = NoNotice
    /\ \E i \in Pending("nextPhase") : \E key \in KeysMain :
           /\ CanFire(i)
           /\ phase = "HISTORY" =>
                  roundSeq + Cardinality(Pending("startGame")) < MaxRounds
           /\ Becomes(NextPhase([This EXCEPT !.timers = Remove(@, i)], key))
    /\ UNCHANGED <<countriesData, dataLoad, client, difficulty, usedCities,
                   enrichCalls, roundSeq, hung, optCall, jsonCall>>

\* the buttons whose onclick is nextPhase(): those of HISTORICAL_FACT,
\* PERSON_GUESS and HISTORY, and the one a finished stats quiz adds
ContinueBtn ==
    /\ ~hung
    /\ notice' = NoNotice
    /\ currentData # NULL
    /\ phase \in {"HISTORICAL_FACT", "PERSON_GUESS", "HISTORY"} \/ panelNext
    /\ phase = "HISTORY" => CanStart
    /\ \E key \in KeysMain : Becomes(NextPhase(This, key))
    /\ UNCHANGED <<countriesData, dataLoad, client, difficulty, usedCities,
                   enrichCalls, roundSeq, hung, optCall, jsonCall>>

\* the isCorrect branch of handleGeoClick
CorrectGuess(g) ==
    SetTimeout(ResetAllGeoStyles([g EXCEPT !.guessedCorrectly = TRUE]),
               "nextPhase", 1500)

\* an else branch that keeps the latest wrong layer only
WrongGuessLatest(g, feature) == [g EXCEPT !.wrongGuesses = {feature.fid}]

\* the else branch
WrongGuess(g, feature) == [g EXCEPT !.wrongGuesses = @ \cup {feature.fid}]

\* an early return that looks at the phase only
GeoIgnoredPhaseOnly(g) == g.phase # "COUNTRY_GUESS"

\* if (this.phase !== 'COUNTRY_GUESS' || this.guessedCorrectly) return;
GeoIgnored(g) == g.phase # "COUNTRY_GUESS" \/ g.guessedCorrectly

\* what handleGeoClick makes of the game for a click on feature
GeoClickOf(g, feature) ==
    IF GeoIgnored(g) THEN g
    ELSE IF IsCorrect(g.currentData, feature) THEN CorrectGuess(g)
    ELSE WrongGuess(g, feature)

\* handleGeoClick(e, feature, layer).  A click that the early return
\* ignores leaves every variable as it is, a stuttering step.
HandleGeoClick ==
    /\ ~hung
    /\ ~GeoIgnored(This)
    /\ \E feature \in Features :
           /\ Becomes(GeoClickOf(This, feature))
           /\ IF IsCorrect(currentData, feature)
              THEN /\ CanSchedule
                   /\ notice' = Toast("Correct! Well done.", <<>>)
              ELSE notice' = Toast("Not quite. That's", feature.name)
    /\ UNCHANGED <<countriesData, dataLoad, client, difficulty, usedCities,
                   enrichCalls, roundSeq, hung, optCall, jsonCall>>

\* the distances of the clicks tried, around the tolerance
Distances(tolerance) == {0, tolerance - 1, tolerance, tolerance + 1}

\* the comparison of the CITY_FIND branch with <= in place of <
WithinInclusive(d, tolerance) == d <= tolerance

\* d < tolerance
Within(d, tolerance) == d < tolerance

\* what handleMapClick makes of the game for a click at distance d from the
\* city: nothing in COUNTRY_GUESS, the CITY_FIND branch, nothing elsewhere
MapClickOf(g, d) ==
    IF g.phase = "COUNTRY_GUESS" THEN g
    ELSE IF g.phase = "CITY_FIND"
         THEN IF Within(d, g.currentData.city.snap_radius)
              THEN SetTimeout(g, "nextPhase", 1500)
              ELSE g
         ELSE g

\* the CITY_FIND branch of handleMapClick for a click at distance d
MapClick(d) ==
    /\ Becomes(MapClickOf(This, d))
    /\ IF Within(d, currentData.city.snap_radius)
       THEN /\ CanSchedule
            /\ notice' = Toast("Found", currentData.city.name)
       ELSE notice' = Toast("Missed by km", <<RoundKm(d)>>)

\* handleMapClick(e); d is the distance of the click from the city.  In
\* every other phase no branch is taken and every variable stays as it is,
\* a stuttering step.
HandleMapClick ==
    /\ ~hung
    /\ phase = "CITY_FIND"
    /\ currentData # NULL
    /\ \E d \in Distances(currentData.city.snap_radius) :
           MapClick(d)
    /\ UNCHANGED <<countriesData, dataLoad, client, difficulty, usedCities,
                   enrichCalls, roundSeq, hung, optCall, jsonCall>>

\* showAnswer()
ShowAnswerOf(g, key) ==
    CASE g.phase = "COUNTRY_GUESS" ->
             SetTimeout(ResetAllGeoStyles([g EXCEPT !.guessedCorrectly = TRUE]),
                        "nextPhase", 2000)
      [] g.phase = "CITY_FIND" -> SetTimeout(g, "nextPhase", 2000)
      [] OTHER -> NextPhase(g, key)

\* the onclick of #show-answer-btn and #show-city-answer-btn, the buttons of
\* COUNTRY_GUESS and CITY_FIND
ShowAnswer ==
    /\ ~hung
    /\ currentData # NULL
    /\ phase \in {"COUNTRY_GUESS", "CITY_FIND"}
    /\ CanSchedule
    /\ \E key \in KeysMain : Becomes(ShowAnswerOf(This, key))
    /\ notice' = IF phase = "CITY_FIND" THEN Toast("It's right here!", <<>>)
                  ELSE NoNotice
    /\ UNCHANGED <<countriesData, dataLoad, client, difficulty, usedCities,
                   enrichCalls, roundSeq, hung, optCall, jsonCall>>

\* a second hint without the loop that ensures the target is highlighted
SecondHintNear(data, near) == near

\* the two eachLayer loops of the second hint: the layers within the radius
\* of the random centre, and those of the target
SecondHint(data, near) == near \cup TargetLayers(data)

\* the body of the onclick of #show-hint-btn
HintOf(g, near) ==
    [g EXCEPT !.hintLevel = @ + 1,
              !.hintedLayers = IF g.hintLevel + 1 = 2
                               THEN @ \cup SecondHint(g.currentData, near)
                               ELSE @]

\* the onclick of #show-hint-btn; the button hides itself at the second hint.
\* The player asks for a hint while the round is unsolved and no advance is
\* pending.
ShowHint ==
    /\ ~hung
    /\ notice' = NoNotice
    /\ currentData # NULL
    /\ phase = "COUNTRY_GUESS"
    /\ hintLevel < 2
    /\ ~guessedCorrectly /\ timers = <<>>
    /\ \E near \in NearSets : Becomes(HintOf(This, near))
    /\ UNCHANGED <<countriesData, dataLoad, client, difficulty, usedCities,
                   enrichCalls, roundSeq, hung, optCall, jsonCall>>

\* the decoys are tried in the order they are shown
NextDecoy(flag) ==
    \A j \in 1..IndexOf(currentData.flag_options, flag) :
        currentData.flag_options[j].is_correct
        \/ currentData.flag_options[j].url \in flagDisabled

\* the onclick of a flag image
FlagClick ==
    /\ ~hung
    /\ currentData # NULL
    /\ phase = "FLAG_GUESS"
    /\ \E flag \in Range(currentData.flag_options) :
           /\ flag.url \notin flagDisabled
           /\ flag.is_correct \/ NextDecoy(flag)
           /\ IF flag.is_correct
              THEN /\ CanSchedule
                   /\ Becomes(SetTimeout(This, "nextPhase", 1000))
                   /\ notice' = Toast("Correct Flag!", <<>>)
              ELSE /\ Becomes([This EXCEPT !.flagDisabled = @ \cup {flag.url}])
                   /\ notice' = Toast("Wrong flag!", <<>>)
    /\ UNCHANGED <<countriesData, dataLoad, client, difficulty, usedCities,
                   enrichCalls, roundSeq, hung, optCall, jsonCall>>

\* a list that names two more phases
NarrativePhasesWide ==
    {"COUNTRY_GUESS", "STATS_COUNTRY", "HISTORICAL_FACT", "PERSON_GUESS", "HISTORY"}

\* the phases in which enrichGameData() renders again
NarrativePhases == {"HISTORICAL_FACT", "PERSON_GUESS", "HISTORY"}

\* enrichGameData() resumes with the service's answer
EnrichResolve ==
    /\ ~hung
    /\ notice' = NoNotice
    /\ currentData # NULL
    /\ \E i \in 1..Len(enrichCalls) : \E key \in KeysMain :
           /\ enrichCalls' = Remove(enrichCalls, i)
           /\ LET g == [This EXCEPT !.currentData =
                                        EnrichMerge(@, enrichCalls[i].about)]
              IN  Becomes(IF phase \in NarrativePhases THEN RenderPhase(g, key)
                          ELSE g)
    /\ UNCHANGED <<countriesData, dataLoad, client, difficulty, usedCities,
                   roundSeq, hung, optCall, jsonCall>>

\* enrichGameData() resumes with the service's failure
EnrichReject ==
    /\ ~hung
    /\ notice' = NoNotice
    /\ currentData # NULL
    /\ \E i \in 1..Len(enrichCalls) :
           /\ enrichCalls' = Remove(enrichCalls, i)
           /\ Becomes([This EXCEPT !.currentData = EnrichFailed(@)])
    /\ UNCHANGED <<countriesData, dataLoad, client, difficulty, usedCities,
                   roundSeq, hung, optCall, jsonCall>>

\* what the service answers to an OTHER_PERSON request
OtherPerson(about) ==
    [name |-> AiText("other name", about), role |-> AiText("other role", about),
     bio |-> AiText("other bio", about), fact |-> AiText("other fact", about)]

\* the label a button takes when its handler starts: only the more-info
\* button is disabled as well
Started(kind) == IF kind = "MORE_INFO" THEN "busy" ELSE "spinner"

\* a catch branch that leaves the button as the handler set it
FollowUpFailedStuck(g, call) == g

\* the catch branches of the three handlers, for the button they captured
FollowUpFailed(g, call) ==
    IF call.attached
    THEN [g EXCEPT !.controls[call.kind] =
                       IF call.kind = "HISTORY_DEEP_DIVE" THEN "retry" ELSE "idle"]
    ELSE g

\* the try branches after the await; ok is FALSE when the branch throws
FollowUpDone(g, call, key) ==
    CASE call.kind = "MORE_INFO" ->
             IF g.controls["person-dynamic-area"] = "none" THEN [ok |-> FALSE, g |-> g]
             ELSE [ok |-> TRUE,
                   g |-> [g EXCEPT !.controls["person-dynamic-area"] = "facts",
                                   !.controls["MORE_INFO"] =
                                       IF call.attached THEN "removed" ELSE @]]
      [] call.kind = "OTHER_PERSON" ->
             [ok |-> TRUE,
              g |-> RenderPhase([g EXCEPT !.currentData.person =
                                              OtherPerson(call.about)], key)]
      [] call.kind = "HISTORY_DEEP_DIVE" ->
             IF g.controls["history-dynamic-area"] = "none" THEN [ok |-> FALSE, g |-> g]
             ELSE [ok |-> TRUE,
                   g |-> [g EXCEPT !.controls["history-dynamic-area"] = "points",
                                   !.controls["HISTORY_DEEP_DIVE"] =
                                       IF call.attached THEN "removed" ELSE @]]

\* the onclick of #more-info-btn, #next-person-btn and #history-more-btn up to
\* the await; without a client the call throws at once and the catch runs
FollowUpClick ==
    /\ ~hung
    /\ currentData # NULL
    /\ \E kind \in Kinds :
           /\ controls[kind] \in {"idle", "spinner", "retry"}
           /\ LET call == [kind |-> kind, about |-> RoundKey(currentData),
                            attached |-> TRUE]
                   g == [This EXCEPT !.controls[kind] = Started(kind)]
               IN  IF client
                   THEN /\ CanSchedule
                        /\ Becomes([g EXCEPT !.followUps = Append(@, call)])
                        /\ notice' = NoNotice
                   ELSE /\ Becomes(FollowUpFailed(g, call))
                        /\ notice' = Toast("Failed.", <<>>)
    /\ UNCHANGED <<countriesData, dataLoad, client, difficulty, usedCities,
                   enrichCalls, roundSeq, hung, optCall, jsonCall>>

\* a follow-up handler resumes with the service's answer
FollowUpResolve ==
    /\ ~hung
    /\ currentData # NULL
    /\ \E i \in 1..Len(followUps) : \E key \in KeysMain :
           LET call == followUps[i]
               g == [This EXCEPT !.followUps = Remove(@, i)]
               done == FollowUpDone(g, call, key)
           IN  IF done.ok
               THEN Becomes(done.g) /\ notice' = NoNotice
               ELSE Becomes(FollowUpFailed(g, call)) /\ notice' = Toast("Failed.", <<>>)
    /\ UNCHANGED <<countriesData, dataLoad, client, difficulty, usedCities,
                   enrichCalls, roundSeq, hung, optCall, jsonCall>>

\* a follow-up handler resumes with the service's failure
FollowUpReject ==
    /\ ~hung
    /\ \E i \in 1..Len(followUps) :
           Becomes(FollowUpFailed([This EXCEPT !.followUps = Remove(@, i)],
                                  followUps[i]))
    /\ notice' = Toast("Failed.", <<>>)
    /\ UNCHANGED <<countriesData, dataLoad, client, difficulty, usedCities,
                   enrichCalls, roundSeq, hung, optCall, jsonCall>>

\* the options of the question the runner shows
QuizItemOf(data, run) ==
    IF run.which = "country" THEN data.stats_quiz[run.current + 1]
    ELSE data.city.stats_quiz[run.current + 1]

\* the onclick of an option button of the quiz.  The player answers while
\* no advance and no restart is pending.
QuizAnswer ==
    /\ ~hung
    /\ currentData # NULL
    /\ quizRun.which # "none"
    /\ quizRun.current < Len(quizRun.keys)
    /\ ~quizRun.locked
    /\ CanSchedule /\ Pending("nextPhase") = {} /\ Pending("startGame") = {}
    /\ \E opt \in Range(QuizItemOf(currentData, quizRun).options) :
           /\ notice' = IF opt = QuizItemOf(currentData, quizRun).correct
                         THEN Toast("Correct!", <<>>) ELSE NoNotice
           /\ LET run == QuizClick(quizRun)
              IN  Becomes([This EXCEPT
                               !.quizRun = run,
                               !.timers = Append(@, [cb |-> "showQuestion",
                                                     delay |-> 2000, run |-> run,
                                                     live |-> TRUE])])
    /\ UNCHANGED <<countriesData, dataLoad, client, difficulty, usedCities,
                   enrichCalls, roundSeq, hung, optCall, jsonCall>>

\* the quiz map a runner holds, sorted for the question it now shows, when
\* that map belongs to the live Round
Reshuffled(data, run, key) ==
    IF data = NULL THEN data
    ELSE IF data.id # run.round \/ run.current >= Len(run.keys) THEN data
    ELSE IF run.which = "country"
    THEN [data EXCEPT !.stats_quiz = ShowQuestion(@, run.current + 1, key)]
    ELSE [data EXCEPT !.city.stats_quiz = ShowQuestion(@, run.current + 1, key)]

\* the setTimeout callback of an answered question: current++, showQuestion()
TimerShowQuestion ==
    /\ ~hung
    /\ notice' = NoNotice
    /\ \E i \in Pending("showQuestion") : \E key \in KeysMain :
           /\ CanFire(i)
           /\ LET t == timers[i]
                  run == RunnerShow([t.run EXCEPT !.current = @ + 1])
              IN  Becomes([This EXCEPT
                               !.timers = Remove(@, i),
                               !.currentData = Reshuffled(@, run, key),
                               !.quizRun = IF t.live THEN run ELSE @,
                               !.panelNext = @ \/ run.completed > t.run.completed])
    /\ UNCHANGED <<countriesData, dataLoad, client, difficulty, usedCities,
                   enrichCalls, roundSeq, hung, optCall, jsonCall>>

Next ==
    \/ DatasetLoaded
    \/ DatasetFailed
    \/ DifficultyChange
    \/ NextBtn
    \/ DemoBtn
    \/ SaveApiKey
    \/ TimerStartGame
    \/ TimerNextPhase
    \/ ContinueBtn
    \/ HandleGeoClick
    \/ HandleMapClick
    \/ ShowAnswer
    \/ ShowHint
    \/ FlagClick
    \/ EnrichResolve
    \/ EnrichReject
    \/ FollowUpClick
    \/ FollowUpResolve
    \/ FollowUpReject
    \/ QuizAnswer
    \/ TimerShowQuestion

Spec == Init /\ [][Next]_vars

(***************************************************************************)
(* SpecAi: Spec with a service whose answer to enrichGameData() may be a   *)
(* person without a name.                                                  *)
(***************************************************************************)
\* enrichGameData() resumes with an answer whose person.name is empty
EnrichResolveUnnamed ==
    /\ ~hung
    /\ notice' = NoNotice
    /\ currentData # NULL
    /\ \E i \in 1..Len(enrichCalls) : \E key \in KeysMain :
           /\ enrichCalls' = Remove(enrichCalls, i)
           /\ LET d == EnrichMerge(currentData, enrichCalls[i].about)
                  g == [This EXCEPT !.currentData =
                                        [d EXCEPT !.person.name.txt = ""]]
              IN  Becomes(IF phase \in NarrativePhases THEN RenderPhase(g, key)
                          ELSE g)
    /\ UNCHANGED <<countriesData, dataLoad, client, difficulty, usedCities,
                   roundSeq, hung, optCall, jsonCall>>

NextAi == Next \/ EnrichResolveUnnamed

SpecAi == Init /\ [][NextAi]_vars

(***************************************************************************)
(* SpecQuiz: renderStatsQuiz alone, from the entry of STATS_COUNTRY or     *)
(* STATS_CITY with a Round of QuizDatasets whose quiz map has entries.     *)
(***************************************************************************)
QuizDatasets == {DataMixed, DataOdd}

\* the GeoDaily object after round was shown and the player went on to ph
Entered(round, ph, key) ==
    RenderPhase([phase |-> ph, currentData |-> round,
                 guessedCorrectly |-> TRUE, wrongGuesses |-> {},
                 hintedLayers |-> {}, hintLevel |-> 0, flagDisabled |-> {},
                 timers |-> <<>>, trail |-> SubSeq(Phases, 1, IndexOf(Phases, ph) + 1),
                 controls |-> NoControls, followUps |-> <<>>,
                 quizRun |-> NoQuiz, panelNext |-> FALSE,
                 advanceSet |-> FALSE], key)

InitQuiz ==
    /\ countriesData \in QuizDatasets
    /\ dataLoad = "done"
    /\ client = FALSE
    /\ enrichCalls = <<>>
    /\ roundSeq = 1
    /\ hung = FALSE
    /\ notice = NoNotice
    /\ optCall = NoCall
    /\ jsonCall = NoText
    /\ \E diff \in Difficulties :
       \E out \in GenerateLocalGameData(countriesData, diff, {}, 1, RndSel) :
       \E ph \in {"STATS_COUNTRY", "STATS_CITY"} : \E key \in ShuffleKeys :
           /\ ~out.hang /\ out.ret # NULL
           /\ ~QuizEmpty(IF ph = "STATS_COUNTRY" THEN out.ret.stats_quiz
                          ELSE out.ret.city.stats_quiz)
           /\ difficulty = diff
           /\ usedCities = out.used
           /\ LET g == Entered(out.ret, ph, key)
              IN  /\ phase = g.phase
                  /\ currentData = g.currentData
                  /\ guessedCorrectly = g.guessedCorrectly
                  /\ wrongGuesses = g.wrongGuesses
                  /\ hintedLayers = g.hintedLayers
                  /\ hintLevel = g.hintLevel
                  /\ flagDisabled = g.flagDisabled
                  /\ timers = g.timers
                  /\ trail = g.trail
                  /\ controls = g.controls
                  /\ followUps = g.followUps
                  /\ quizRun = g.quizRun
                  /\ panelNext = g.panelNext
                  /\ advanceSet = g.advanceSet

NextQuiz == QuizAnswer \/ TimerShowQuestion

SpecQuiz == InitQuiz /\ [][NextQuiz]_vars

(***************************************************************************)
(* SpecHint: the hint button and the region clicks alone, from the entry   *)
(* of COUNTRY_GUESS with a Round of HintDatasets.  The handler of the hint *)
(* button is also run after the button has hidden itself, as a click()     *)
(* call on the element does.                                               *)
(***************************************************************************)
HintDatasets == {DataPlay, DataMixed}

\* the layers within the radius of the random centre, for every centre
HintNearSets == SUBSET {f.fid : f \in Features}

InitHint ==
    /\ countriesData \in HintDatasets
    /\ dataLoad = "done"
    /\ client = FALSE
    /\ enrichCalls = <<>>
    /\ roundSeq = 1
    /\ hung = FALSE
    /\ notice = NoNotice
    /\ optCall = NoCall
    /\ jsonCall = NoText
    /\ \E diff \in Difficulties :
       \E out \in GenerateLocalGameData(countriesData, diff, {}, 1, RndMain) :
       \E key \in KeysMain :
           /\ ~out.hang /\ out.ret # NULL
           /\ difficulty = diff
           /\ usedCities = out.used
           /\ LET g == Entered(out.ret, "COUNTRY_GUESS", key)
              IN  /\ phase = g.phase
                  /\ currentData = g.currentData
                  /\ guessedCorrectly = g.guessedCorrectly
                  /\ wrongGuesses = g.wrongGuesses
                  /\ hintedLayers = g.hintedLayers
                  /\ hintLevel = g.hintLevel
                  /\ flagDisabled = g.flagDisabled
                  /\ timers = g.timers
                  /\ trail = g.trail
                  /\ controls = g.controls
                  /\ followUps = g.followUps
                  /\ quizRun = g.quizRun
                  /\ panelNext = g.panelNext
                  /\ advanceSet = g.advanceSet

\* the onclick of #show-hint-btn, whatever the button shows
HintRequest ==
    /\ ~hung
    /\ notice' = NoNotice
    /\ currentData # NULL
    /\ phase = "COUNTRY_GUESS"
    /\ hintLevel < MaxHints
    /\ \E near \in HintNearSets : Becomes(HintOf(This, near))
    /\ UNCHANGED <<countriesData, dataLoad, client, difficulty, usedCities,
                   enrichCalls, roundSeq, hung, optCall, jsonCall>>

NextHint == HintRequest \/ HandleGeoClick

SpecHint == InitHint /\ [][NextHint]_vars

(***************************************************************************)
(* Properties of the round selector (SpecSel).                             *)
(***************************************************************************)
\* the effective tier of the pair a Round was built from
TierOf(round) ==
    LET c == CHOOSE c \in Range(CityPool(countriesData)) : CandKey(c) = RoundKey(round)
    IN  c.calculatedDifficulty

\* the last generateLocalGameData call returned a Round
Returned == roundSeq >= 1 /\ ~hung /\ currentData # NULL

\* the candidate set of the fallback chain: requested tier, else medium, else
\* the whole pool
ChainSet(pool, diff) ==
    LET candidates == Candidates(pool, diff)
    IN  IF Len(candidates) = 0 THEN pool ELSE candidates

\* C4: for the requested tier (difficulty), a Round of that tier is returned when
\* the tier has a candidate, else a Round of tier medium when medium has one,
\* else a Round from the whole pool.
C4_TierFallback ==
    roundSeq >= 1 =>
        LET pool == CityPool(countriesData)
            tierPool == FilterTier(pool, difficulty)
            medPool == FilterTier(pool, "medium")
        IN  /\ Len(tierPool) > 0 => Returned /\ TierOf(currentData) = difficulty
            /\ Len(tierPool) = 0 /\ Len(medPool) > 0
                   => Returned /\ TierOf(currentData) = "medium"
            /\ Len(tierPool) = 0 /\ Len(medPool) = 0 /\ Len(pool) > 0
                   => Returned /\ RoundKey(currentData) \in AllKeys(countriesData)

\* C5: on a dataset with at least one (country, city) pair every call returns a
\* Round; it returns null only on a dataset without pairs, and it never hangs.
C5_AlwaysReturns ==
    roundSeq >= 1 =>
        /\ ~hung
        /\ Len(CityPool(countriesData)) > 0 => currentData # NULL

\* C6: when the candidate set of the fallback chain holds a pair whose key is
\* not in usedCities, the Round returned is not one whose key was in usedCities.
C6_NoUsedPair ==
    [][ ( /\ roundSeq' = roundSeq + 1
          /\ currentData' # NULL
          /\ \E c \in Range(ChainSet(CityPool(countriesData), difficulty')) :
                 CandKey(c) \notin usedCities )
        => RoundKey(currentData') \notin usedCities ]_vars

\* C7: when usedCities holds the key of every candidate of the matching pool,
\* the call still returns, and returns a Round of that same pool.
C7_ExhaustedPool ==
    [][ LET matching == Candidates(CityPool(countriesData), difficulty')
        IN  ( /\ roundSeq' = roundSeq + 1
              /\ Len(matching) > 0
              /\ \A c \in Range(matching) : CandKey(c) \in usedCities )
            => /\ ~hung'
               /\ currentData' # NULL
               /\ \E c \in Range(matching) : CandKey(c) = RoundKey(currentData') ]_vars

\* the country code inside a flag URL
CodeOfUrl(url) == SubSeq(url, Len(FlagUrl(<<>>)) - 3, Len(url) - 4)

\* C9: the flag options of every Round are 4 entries, exactly one of them
\* correct and that one the target country's flag, with 4 distinct codes.
C9_FlagOptions ==
    currentData # NULL =>
        LET fo == currentData.flag_options
        IN  /\ Len(fo) = 4
            /\ Cardinality({i \in 1..Len(fo) : fo[i].is_correct}) = 1
            /\ \A i \in 1..Len(fo) :
                   fo[i].is_correct => CodeOfUrl(fo[i].url) = currentData.country_code
            /\ \A i, j \in 1..Len(fo) :
                   i # j => CodeOfUrl(fo[i].url) # CodeOfUrl(fo[j].url)

C9_Witness ==
    /\ Returned
    /\ Len(countriesData) >= 4
    /\ \E i \in 1..4 : currentData.flag_options[i].url = FlagUrl(<<"c","a">>)

\* a true value without data: a sentinel, text that is no number, or zero
NoData(valStr) ==
    \/ valStr.fmt \in {"empty", "Unknown", "Data Pending", "N/A", "text"}
    \/ valStr.fmt \in {"grouped", "plain", "km2", "billion", "trillion"}
       /\ valStr.n = 0

\* the stat behind key of a quiz map
Truth(stats, key) ==
    CASE key = "population" -> stats.population
      [] key = "area"       -> stats.area
      [] key = "gdp"        -> stats.gdp

\* C11: makeOptions returns null for every true value without data, the quiz
\* maps of a Round hold no entry for such a value, and every entry they hold
\* is for a value with data and has its true value among 1 to 4 options.
C11_AbsentOmitted ==
    Returned =>
        LET country == CHOOSE c \in Range(countriesData) :
                           c.name = currentData.country
            city == CHOOSE c \in Range(country.cities) :
                        c.name = currentData.city.name
            NoEntry(quiz, key) == \A i \in 1..Len(quiz) : quiz[i].key # key
            Valid(q, truth) ==
                /\ q.correct = truth /\ ~NoData(truth)
                /\ Len(q.options) \in 1..4
                /\ Cardinality({i \in 1..Len(q.options) : q.options[i] = truth}) = 1
        IN  /\ \A key \in {"population", "area", "gdp"} :
                   NoData(Truth(country.stats, key)) =>
                       /\ NoEntry(currentData.stats_quiz, key)
                       /\ \A rnd \in RndSel :
                              MakeOptions(Truth(country.stats, key), key = "gdp",
                                          rnd).ret = NoOptions
            /\ NoData(city.pop) =>
                   /\ currentData.city.stats_quiz = <<>>
                   /\ \A rnd \in RndSel :
                          MakeOptions(city.pop, FALSE, rnd).ret = NoOptions
            /\ \A i \in 1..Len(currentData.stats_quiz) :
                   Valid(currentData.stats_quiz[i],
                         Truth(country.stats, currentData.stats_quiz[i].key))
            /\ \A i \in 1..Len(currentData.city.stats_quiz) :
                   /\ currentData.city.stats_quiz[i].key = "population"
                   /\ Valid(currentData.city.stats_quiz[i], city.pop)

\* a Round of a country whose three stats are zero
C11_Witness ==
    /\ Returned
    /\ currentData.country = <<"Z","e">>
    /\ currentData.stats_quiz = <<>>
    /\ currentData.city.stats_quiz = <<>>

\* C31: every candidate of the pool has the tier of its country when its city
\* is the capital, and otherwise the next harder tier: medium for easy, hard
\* for medium, extreme for hard and extreme for extreme.
C31_EffectiveDifficulty ==
    \A c \in Range(CityPool(countriesData)) :
        LET tier == c.countryRef.difficulty
        IN  c.calculatedDifficulty =
                IF c.city.is_capital THEN tier
                ELSE CASE tier = "easy"    -> "medium"
                       [] tier = "medium"  -> "hard"
                       [] tier = "hard"    -> "extreme"
                       [] tier = "extreme" -> "extreme"

\* a call for tier extreme has returned the town of an extreme country
C31_Witness ==
    /\ Returned
    /\ difficulty = "extreme"
    /\ currentData.country = <<"D","u">>
    /\ currentData.city.name = <<"D","4">>
    /\ TierOf(currentData) = "extreme"

(***************************************************************************)
(* Properties of the distractor generator (SpecOpt).                       *)
(***************************************************************************)
\* C10: for a valid true value the returned options hold the true value once,
\* are pairwise distinct, and are 4 unless the 100 attempts were used up, when
\* they are 1 to 4; the loop makes at most 100 attempts.
C10_OptionSet ==
    optCall.called /\ ~Absent(optCall.valStr) =>
        LET ret == optCall.ret
        IN  /\ ret # NoOptions
            /\ Cardinality({i \in 1..Len(ret) : ret[i] = optCall.valStr}) = 1
            /\ \A i, j \in 1..Len(ret) : i # j => ret[i] # ret[j]
            /\ \/ Len(ret) = 4
               \/ optCall.attempts = MaxAttempts /\ Len(ret) \in 1..4
            /\ optCall.attempts <= MaxAttempts

C10_Witness ==
    /\ optCall.called
    /\ ~Absent(optCall.valStr)
    /\ optCall.attempts = MaxAttempts
    /\ Len(optCall.ret) \in 2..3

\* C32: of the options returned for a valid true value, no decoy stands for
\* zero, whether it is written as a plain integer, with the km² suffix or as
\* money.
C32_NoZeroDecoy ==
    (optCall.called /\ optCall.ret # NoOptions) =>
        \A i \in 1..Len(optCall.ret) :
            optCall.ret[i] # optCall.valStr => optCall.ret[i].n # 0

\* C25: of the options returned for a monetary true value, every decoy that
\* stands for 1000 Billion or more is written in Trillion and every decoy
\* below 1000 Billion in Billion: no decoy reads "$N Billion" with N >= 1000,
\* and the loop writes a fake value of 1000 Billion or more in Trillion.
C25_TrillionSwitch ==
    (optCall.called /\ optCall.isMoney /\ optCall.ret # NoOptions) =>
        /\ \A i \in 1..Len(optCall.ret) :
               LET o == optCall.ret[i]
               IN  o # optCall.valStr =>
                       /\ o.fmt \in {"billion", "trillion"}
                       /\ o.fmt = "billion" => o.n < TrillionAbove * 10
                       /\ o.fmt = "trillion" => o.n >= 10
        /\ \A p \in VarySet :
               LET billions1000 == MoneyVal(optCall.valStr) * p
               IN  /\ billions1000 >= TrillionAbove * 1000 =>
                          MoneyStr(optCall.valStr, p).fmt = "trillion"
                   /\ billions1000 < TrillionAbove * 1000 =>
                          MoneyStr(optCall.valStr, p).fmt = "billion"

(***************************************************************************)
(* Properties of the quiz runner (SpecQuiz).                               *)
(***************************************************************************)
\* the showQuestion timers of the runner in the panel
RevealPending == {i \in Pending("showQuestion") : timers[i].live}

\* the keys of the quiz map the runner was given
QuizKeysOf(data, run) ==
    LET quiz == IF run.which = "country" THEN data.stats_quiz
                ELSE data.city.stats_quiz
    IN  [i \in 1..Len(quiz) |-> quiz[i].key]

\* C22: the runner of a quiz map with n items presents the items in the
\* map's insertion order (population, area, gdp), each once and one at a
\* time; it takes one answer for the item shown, whose options stay locked
\* until the delay of that answer has passed and the next item is shown; and
\* it calls onComplete once, after the delay of the n-th answer.
C22_QuizRunner ==
    quizRun.which # "none" =>
        LET keys == quizRun.keys
            n == Len(keys)
            cur == quizRun.current
            Min(a, b) == IF a < b THEN a ELSE b
            Rank(k) == IndexOf(<<"population", "area", "gdp">>, k)
        IN  /\ keys = QuizKeysOf(currentData, quizRun) /\ n >= 1
            /\ \A i, j \in 1..n : i < j => Rank(keys[i]) < Rank(keys[j])
            /\ \A i \in 1..n : Rank(keys[i]) >= 0
            /\ cur \in 0..n
            /\ quizRun.shown = SubSeq(keys, 1, Min(cur + 1, n))
            /\ quizRun.answered =
                   SubSeq(keys, 1, Min(cur + (IF quizRun.locked THEN 1 ELSE 0), n))
            /\ cur < n => (quizRun.locked <=> Cardinality(RevealPending) = 1)
            /\ ~quizRun.locked => RevealPending = {}
            /\ quizRun.completed = (IF cur = n THEN 1 ELSE 0)
            /\ quizRun.completed = 1 =>
                   /\ quizRun.answered = keys /\ RevealPending = {}
                   /\ panelNext

\* a quiz of three items has been answered to the end
C22_Witness ==
    /\ quizRun.keys = <<"population", "area", "gdp">>
    /\ quizRun.answered = quizRun.keys
    /\ quizRun.completed = 1
    /\ panelNext

(***************************************************************************)
(* Properties of the phase sequencer (Spec).                               *)
(***************************************************************************)
\* C1: from the COUNTRY_GUESS of a new Round, under nextPhase() calls alone,
\* the phases set are COUNTRY_GUESS, FLAG_GUESS, STATS_COUNTRY, CITY_FIND,
\* STATS_CITY, HISTORICAL_FACT, PERSON_GUESS, HISTORY in that order, each once
\* (a STATS phase with an empty quiz is set and left inside one call); the
\* seventh call sets HISTORY and the eighth starts the restart (LOADING).
C1_PhaseCycle ==
    LET order == <<"COUNTRY_GUESS", "FLAG_GUESS", "STATS_COUNTRY", "CITY_FIND",
                   "STATS_CITY", "HISTORICAL_FACT", "PERSON_GUESS", "HISTORY">>
        n == Len(trail)
    IN  /\ n <= 9
        /\ n \in 1..8 =>
               trail = SubSeq(order, 1, n) /\ phase = order[n] /\ currentData # NULL
        /\ n = 9 =>
               SubSeq(trail, 1, 8) = order /\ trail[9] = "LOADING" /\ phase = "LOADING"

C1_Witness == Len(trail) = 9 /\ phase = "LOADING"

\* C1 as stated: the same order, and after seven nextPhase() calls (eight
\* phases set, COUNTRY_GUESS included) the sequencer is restarting or in the
\* COUNTRY_GUESS of a new Round.
C1_SevenAdvances ==
    LET order == <<"COUNTRY_GUESS", "FLAG_GUESS", "STATS_COUNTRY", "CITY_FIND",
                   "STATS_CITY", "HISTORICAL_FACT", "PERSON_GUESS", "HISTORY">>
        n == Len(trail)
    IN  /\ n \in 1..8 => trail = SubSeq(order, 1, n)
        /\ n = 8 => phase \in {"LOADING", "COUNTRY_GUESS"}

\* C2: no step takes HISTORY to a phase other than LOADING, and after the
\* nextPhase() of HISTORY has set LOADING the phase becomes COUNTRY_GUESS
\* only in a step that puts a new Round in place of the one live in HISTORY.
C2_RestartBeforeCountryGuess ==
    [][/\ phase = "HISTORY" => phase' \in {"HISTORY", "LOADING"}
       /\ (Len(trail) = 9 /\ phase = "LOADING" /\ phase' = "COUNTRY_GUESS") =>
              (currentData' # NULL /\ currentData'.id # currentData.id)]_vars

Narrative(data) == <<data.historical_fact, data.person, data.history>>

\* C3: a step in which an enrichGameData() call made for a Round that is no
\* longer the live one resumes (with an answer or a failure) leaves
\* historical_fact, person and history of the live Round as they were.
C3_StaleEnrichDiscarded ==
    [][\A i \in 1..Len(enrichCalls) :
           (/\ enrichCalls' = Remove(enrichCalls, i)
            /\ currentData # NULL
            /\ enrichCalls[i].round # currentData.id)
           => Narrative(currentData') = Narrative(currentData)]_vars

\* C8: the key of the live Round is in usedCities from the step that selected
\* it on, whatever happens to the round, and no step removes a key.
C8_UsedCities ==
    /\ [](currentData # NULL => RoundKey(currentData) \in usedCities)
    /\ [][usedCities \subseteq usedCities']_vars

\* a restart that abandoned a live Round: its key is still there
C8_Witness ==
    /\ phase = "LOADING"
    /\ trail = <<>>
    /\ currentData # NULL
    /\ Pending("startGame") # {}
    /\ RoundKey(currentData) \in usedCities

\* C12: in CITY_FIND a map click at distance d schedules the advance (the
\* 1500 ms nextPhase timer, which leads to STATS_CITY) exactly when
\* d < snap_radius, so a click at d = snap_radius fails; a failing click only
\* reports the miss, leaves the phase at CITY_FIND with nothing scheduled, and
\* the next click is accepted again.
C12_SnapRadius ==
    [][/\ \A d \in (IF currentData = NULL THEN {}
                     ELSE Distances(currentData.city.snap_radius)) :
              (phase = "CITY_FIND" /\ MapClick(d)) =>
                  /\ d < currentData.city.snap_radius <=>
                         timers' = Append(timers, Advance(1500))
                  /\ d < currentData.city.snap_radius <=> notice'.msg = "Found"
                  /\ d >= currentData.city.snap_radius <=>
                         notice'.msg = "Missed by km"
       /\ notice'.msg = "Found" =>
              /\ phase = "CITY_FIND" /\ phase' = "CITY_FIND"
              /\ Len(timers') = Len(timers) + 1
              /\ trail # <<>> =>
                     NextPhase(This, <<1, 2, 3, 4>>).trail[Len(trail) + 1] =
                         "STATS_CITY"
       /\ notice'.msg = "Missed by km" =>
              /\ phase = "CITY_FIND" /\ phase' = "CITY_FIND"
              /\ timers' = timers
              /\ currentData' = currentData /\ currentData # NULL]_vars

\* a click has just missed, with no advance pending
C12_Witness ==
    /\ notice.msg = "Missed by km"
    /\ phase = "CITY_FIND"
    /\ timers = <<>>

\* the quiz maps of the live Round
CountryQuizEmpty == Len(currentData.stats_quiz) = 0

CityQuizEmpty == Len(currentData.city.stats_quiz) = 0

\* C13: a STATS phase entered with an empty quiz map is left inside the same
\* call, with no user input: STATS_COUNTRY for CITY_FIND and STATS_CITY for
\* HISTORICAL_FACT, so the sequencer never rests in a STATS phase that has
\* nothing to ask and the round goes on to HISTORY.
C13_EmptyQuizSkipped ==
    currentData # NULL =>
        /\ phase = "STATS_COUNTRY" => ~CountryQuizEmpty
        /\ phase = "STATS_CITY" => ~CityQuizEmpty
        /\ \A i \in 1..Len(trail) :
               /\ (trail[i] = "STATS_COUNTRY" /\ CountryQuizEmpty) =>
                      i < Len(trail) /\ trail[i + 1] = "CITY_FIND"
               /\ (trail[i] = "STATS_CITY" /\ CityQuizEmpty) =>
                      i < Len(trail) /\ trail[i + 1] = "HISTORICAL_FACT"

\* a round with both quiz maps empty has gone through both STATS phases and
\* stands in HISTORY
C13_Witness ==
    /\ currentData # NULL
    /\ CountryQuizEmpty /\ CityQuizEmpty
    /\ phase = "HISTORY"
    /\ trail = Phases

\* the texts the narrative fields of a new Round hold
Placeholders ==
    {Text("Loading interesting history..."), Text("Loading context..."),
     LoadingPerson.name, LoadingPerson.role, LoadingPerson.bio, LoadingPerson.fact}

\* the catch branch of enrichGameData has written the Round last
EnrichHasFailed ==
    /\ currentData # NULL
    /\ currentData.historical_fact = Text("Could not load history.")

NonNarrative(data) ==
    IF data = NULL THEN <<>>
    ELSE <<data.id, data.country, data.country_code, data.flag_options,
           data.stats_quiz, data.city>>

\* an enrichGameData() call has resumed in this step, with an answer or a failure
EnrichResumes == Len(enrichCalls') < Len(enrichCalls)

\* C15: the resolution of an enrich request, success or failure, changes
\* neither the phase nor the Round's country, flag options, quiz maps and
\* city record, in whatever phase it arrives.
C15_EnrichFrame ==
    [][EnrichResumes =>
           /\ phase' = phase
           /\ NonNarrative(currentData') = NonNarrative(currentData)]_vars

\* an answer has been merged into a Round the player has taken to CITY_FIND
C15_Witness ==
    /\ phase = "CITY_FIND"
    /\ currentData # NULL
    /\ currentData.person = AiPerson(RoundKey(currentData))
    /\ Len(currentData.stats_quiz) > 0

\* the states in which a button takes a click
Clickable == {"idle", "spinner", "retry"}

\* a follow-up handler has run its catch branch in this step
FollowUpFails == notice'.msg = "Failed."

\* C16: when a follow-up call (MORE_INFO, OTHER_PERSON or HISTORY_DEEP_DIVE)
\* fails, the Round, its person included, and the phase are unchanged, no
\* call and no timer is issued in its place, and the button that started it,
\* if it is still in the panel, takes a click again.
C16_FollowUpFailure ==
    [][FollowUpFails =>
           /\ phase' = phase
           /\ currentData' = currentData
           /\ enrichCalls' = enrichCalls
           /\ timers' = timers
           /\ \/ followUps' = followUps
              \/ \E i \in 1..Len(followUps) : followUps' = Remove(followUps, i)
           /\ \A i \in 1..Len(followUps) :
                  (followUps' = Remove(followUps, i) /\ followUps[i].attached) =>
                      controls'[followUps[i].kind] \in Clickable
           /\ followUps' = followUps =>
                  \A k \in Kinds : controls[k] \in Clickable =>
                                       controls'[k] \in Clickable]_vars

\* a MORE_INFO call made with a client has failed and its button is back
C16_Witness ==
    /\ notice.msg = "Failed."
    /\ client
    /\ phase = "PERSON_GUESS"
    /\ controls["MORE_INFO"] = "idle"
    /\ followUps = <<>>

\* the calls of one kind that are outstanding
Outstanding(kind) == {i \in 1..Len(followUps) : followUps[i].kind = kind}

\* C17: for each follow-up kind at most one request is outstanding at any
\* time (the button that starts it takes no click while its call is pending).
C17_OneOutstanding ==
    \A kind \in Kinds : Cardinality(Outstanding(kind)) <= 1

\* the round is solved and the advance a correct guess schedules is pending
SolvedByGuess ==
    /\ phase = "COUNTRY_GUESS"
    /\ guessedCorrectly
    /\ \E i \in Pending("nextPhase") : timers[i].delay = 1500

\* C18: a correct location guess in COUNTRY_GUESS marks the round solved and
\* schedules the advance; from then on the round stays solved as long as it
\* is live and the phase is COUNTRY_GUESS, so that every later location guess
\* is ignored, and
\* the phase that follows COUNTRY_GUESS is FLAG_GUESS.
C18_SolvedUntilAdvance ==
    [][/\ notice'.msg = "Correct! Well done." =>
              /\ guessedCorrectly'
              /\ phase' = phase
              /\ timers' = Append(timers, Advance(1500))
       /\ SolvedByGuess =>
              /\ notice'.msg \notin {"Correct! Well done.", "Not quite. That's"}
              /\ (phase' = "COUNTRY_GUESS" /\ roundSeq' = roundSeq) => guessedCorrectly'
              /\ phase' \in {"COUNTRY_GUESS", "FLAG_GUESS", "LOADING"}]_vars

\* a location guess has missed in this step
GuessMisses == notice'.msg = "Not quite. That's"

\* C19: a mismatching location guess in COUNTRY_GUESS adds the clicked region
\* to the wrong-guess set, which a repeated click on a region already in it
\* leaves as it is, and changes neither the phase nor the solved flag nor the
\* Round; nothing is scheduled.
C19_WrongGuessFrame ==
    [][GuessMisses =>
           /\ phase = "COUNTRY_GUESS" /\ phase' = "COUNTRY_GUESS"
           /\ \E feature \in Features :
                  /\ feature.name = notice'.arg
                  /\ ~IsCorrect(currentData, feature)
                  /\ wrongGuesses' = wrongGuesses \cup {feature.fid}
                  /\ feature.fid \in wrongGuesses => wrongGuesses' = wrongGuesses
           /\ guessedCorrectly' = guessedCorrectly /\ ~guessedCorrectly
           /\ currentData' = currentData
           /\ timers' = timers]_vars

\* two regions have been tried and the latest click missed
C19_Witness ==
    /\ notice.msg = "Not quite. That's"
    /\ phase = "COUNTRY_GUESS"
    /\ Cardinality(wrongGuesses) = 2

\* C20: in FLAG_GUESS the click on an incorrect flag never advances the phase
\* and disables that flag, which stays disabled as long as the round is live
\* and the phase is FLAG_GUESS; the click on the correct flag schedules the
\* advance, which leads to STATS_COUNTRY.
C20_WrongFlagStaysDisabled ==
    [][/\ notice'.msg = "Wrong flag!" =>
              /\ phase = "FLAG_GUESS" /\ phase' = "FLAG_GUESS"
              /\ timers' = timers
              /\ Cardinality(flagDisabled') = Cardinality(flagDisabled) + 1
       /\ notice'.msg = "Correct Flag!" =>
              /\ phase = "FLAG_GUESS" /\ phase' = "FLAG_GUESS"
              /\ timers' = Append(timers, Advance(1000))
              /\ Phases[IndexOf(Phases, phase) + 2] = "STATS_COUNTRY"
       /\ (phase = "FLAG_GUESS" /\ phase' = "FLAG_GUESS" /\ roundSeq' = roundSeq) =>
              flagDisabled \subseteq flagDisabled']_vars

\* the advance showAnswer() schedules
AnswerTimer == Advance(2000)

\* Show Answer has solved the round and its advance is pending
SolvedByAnswer ==
    /\ phase = "COUNTRY_GUESS"
    /\ guessedCorrectly
    /\ \E i \in Pending("nextPhase") : timers[i] = AnswerTimer

\* C21: showAnswer() in COUNTRY_GUESS marks the round solved and schedules
\* the advance without changing the phase; the round then stays solved while
\* it is live and the phase is COUNTRY_GUESS, so that later location guesses
\* are ignored, and the phase that follows is FLAG_GUESS.  In CITY_FIND it
\* shows the city, leaves the phase and schedules the advance, which leads
\* to STATS_CITY.  In every other phase it leaves phase and Round as
\* nextPhase() does.
C21_ShowAnswer ==
    [][/\ (phase = "COUNTRY_GUESS" /\ timers' = Append(timers, AnswerTimer)) =>
              /\ guessedCorrectly'
              /\ phase' = phase
              /\ currentData' = currentData
       /\ SolvedByAnswer =>
              /\ notice'.msg \notin {"Correct! Well done.", "Not quite. That's"}
              /\ (phase' = "COUNTRY_GUESS" /\ roundSeq' = roundSeq) => guessedCorrectly'
              /\ phase' \in {"COUNTRY_GUESS", "FLAG_GUESS", "LOADING"}
       /\ notice'.msg = "It's right here!" =>
              /\ phase = "CITY_FIND" /\ phase' = "CITY_FIND"
              /\ timers' = Append(timers, AnswerTimer)
              /\ currentData' = currentData
              /\ Phases[IndexOf(Phases, phase) + 2] = "STATS_CITY"
       /\ \A key \in KeysMain :
              (currentData # NULL /\ phase \notin {"COUNTRY_GUESS", "CITY_FIND"}) =>
                  /\ ShowAnswerOf(This, key).phase = NextPhase(This, key).phase
                  /\ ShowAnswerOf(This, key).currentData =
                         NextPhase(This, key).currentData]_vars

\* an enrichGameData() call has reached its await in this step
EnrichIssued == Len(enrichCalls') > Len(enrichCalls)

\* C23: enrichGameData() is called for a Round once, in the step that creates
\* the Round: a step issues an enrich request only when it creates a Round,
\* and then one request, for that Round; no other step issues one.
C23_EnrichOnce ==
    [][EnrichIssued =>
           /\ roundSeq' = roundSeq + 1
           /\ currentData' # NULL
           /\ currentData'.id = roundSeq'
           /\ enrichCalls' = Append(enrichCalls,
                                    [round |-> roundSeq',
                                     about |-> RoundKey(currentData')])]_vars

\* the fetch of data.json has failed, or has brought a dataset without countries
NoDataset ==
    \/ dataLoad = "failed"
    \/ dataLoad = "done" /\ countriesData = <<>>

\* C24: when the dataset has failed to load or is empty there is no Round,
\* no key in usedCities and no enrich request, the phase is INTRO or LOADING,
\* and it stays so: no step loads the dataset again, changes usedCities or
\* issues a request.
C24_NoDataset ==
    /\ [](NoDataset =>
              /\ currentData = NULL
              /\ usedCities = {}
              /\ enrichCalls = <<>>
              /\ phase \in {"INTRO", "LOADING"})
    /\ [][NoDataset =>
              /\ NoDataset'
              /\ dataLoad' = dataLoad /\ countriesData' = countriesData
              /\ usedCities' = usedCities
              /\ enrichCalls' = enrichCalls]_vars

\* the fetch has failed and a start the player asked for has ended without
\* a Round
C24_Witness ==
    /\ dataLoad = "failed"
    /\ phase = "LOADING"
    /\ roundSeq >= 1
    /\ timers = <<>>
    /\ currentData = NULL

\* what the service has answered to call
Answer(call) ==
    <<AiText("historical_fact", call.about), AiPerson(call.about),
      AiText("history", call.about)>>

\* C26: when an enrichGameData() call resumes with an answer while the phase
\* is none of HISTORICAL_FACT, PERSON_GUESS and HISTORY, the answer is written
\* into historical_fact, person and history of the live Round and the entry
\* code of the phase does not run: phase, wrong-guess set, hinted set, hint
\* level, solved flag, disabled flags, quiz position and pending timers are
\* as before.
C26_SilentMerge ==
    [][\A i \in 1..Len(enrichCalls) :
           (/\ enrichCalls' = Remove(enrichCalls, i)
            /\ currentData # NULL /\ currentData' # NULL
            /\ currentData'.historical_fact = Answer(enrichCalls[i])[1]
            /\ phase \notin {"HISTORICAL_FACT", "PERSON_GUESS", "HISTORY"})
           => /\ Narrative(currentData') = Answer(enrichCalls[i])
              /\ phase' = phase
              /\ wrongGuesses' = wrongGuesses
              /\ hintedLayers' = hintedLayers
              /\ hintLevel' = hintLevel
              /\ guessedCorrectly' = guessedCorrectly
              /\ flagDisabled' = flagDisabled
              /\ quizRun' = quizRun /\ panelNext' = panelNext
              /\ timers' = timers]_vars

\* the answer is in the Round while the player, after a miss and two hints,
\* is still guessing the country
C26_Witness ==
    /\ phase = "COUNTRY_GUESS"
    /\ currentData # NULL
    /\ Narrative(currentData) =
           Answer([about |-> RoundKey(currentData)])
    /\ wrongGuesses # {}
    /\ hintLevel = 2
    /\ ~guessedCorrectly

\* C27: generateLocalGameData runs, and the live Round is replaced, only
\* while the phase is LOADING: a step that runs the callback of startGame()
\* or changes the identity of the Round starts in LOADING.
C27_SelectInLoading ==
    [][(roundSeq' # roundSeq
        \/ (currentData # NULL /\ currentData' # NULL
            /\ currentData'.id # currentData.id))
       => phase = "LOADING"]_vars

\* C28: a person that an OTHER_PERSON answer has put on the Round stays when
\* the enrichGameData() call of the same Round resumes afterwards, with an
\* answer or with a failure.
C28_PersonKept ==
    [][\A i \in 1..Len(enrichCalls) :
           (/\ enrichCalls' = Remove(enrichCalls, i)
            /\ currentData # NULL /\ currentData' # NULL
            /\ currentData'.id = currentData.id
            /\ enrichCalls[i].about = RoundKey(currentData)
            /\ currentData.person = OtherPerson(RoundKey(currentData)))
           => currentData'.person = currentData.person]_vars

\* the Round still holds the placeholders generateLocalGameData wrote
StillLoading(data) ==
    /\ data.historical_fact = Text("Loading interesting history...")
    /\ data.person.name = Text("Loading...")
    /\ data.history = Text("Loading context...")

\* C29: when the first API key is saved while a Round is live that was
\* created without a client and still holds its placeholders, saveApiKey()
\* issues an enrichGameData() call for that Round.
C29_KeyTriggersEnrich ==
    [][(/\ ~client /\ client'
        /\ currentData # NULL
        /\ StillLoading(currentData)
        /\ enrichCalls = <<>>)
       => \E i \in 1..Len(enrichCalls') :
              enrichCalls'[i].about = RoundKey(currentData)]_vars

\* C30: every step that enters COUNTRY_GUESS, from another phase or for a new
\* Round, ends with the wrong-guess set and the hinted set empty, the hint
\* level 0 and the solved flag false.
C30_FreshEntry ==
    [][(phase' = "COUNTRY_GUESS"
        /\ (phase # "COUNTRY_GUESS" \/ roundSeq' # roundSeq))
       => /\ wrongGuesses' = {}
          /\ hintedLayers' = {}
          /\ hintLevel' = 0
          /\ ~guessedCorrectly']_vars

\* the second Round has just been entered with nothing guessed or hinted,
\* while a request made in PERSON_GUESS of the first is still in flight
C30_Witness ==
    /\ phase = "COUNTRY_GUESS"
    /\ roundSeq = 2
    /\ followUps # <<>>
    /\ currentData # NULL /\ currentData.id = 2
    /\ trail = <<"COUNTRY_GUESS">>
    /\ wrongGuesses = {} /\ hintedLayers = {} /\ hintLevel = 0
    /\ ~guessedCorrectly

C34_ExtractJSON ==
    jsonCall.called =>
        LET text == jsonCall.text
            first == TextIndexOf(text, "{")
            last == TextLastIndexOf(text, "}")
            span == SubstringOrdered(text, first, last + 1)
        IN  IF ~JsonParse(text).threw THEN jsonCall.out = JsonParse(text)
            ELSE IF first # -1 /\ last # -1 /\ ~JsonParse(span).threw
            THEN jsonCall.out = JsonParse(span)
            ELSE jsonCall.out.threw

\* C35: when a setTimeout(() => this.nextPhase(), ...) callback runs while
\* every such timer pending was set in a Round other than the live one, the
\* step leaves the phase and the live Round as they are.
C35_StaleAdvance ==
    [][(/\ TimerNextPhase
        /\ currentData # NULL
        /\ \A i \in Pending("nextPhase") : timers[i].round # currentData.id)
       => (phase' = phase /\ currentData' = currentData)]_vars

\* C36: a handler of COUNTRY_GUESS, FLAG_GUESS or CITY_FIND that sets an
\* auto-advance runs only when none was set before in the same visit of the
\* phase, whatever success inputs are repeated before the delay has passed:
\* one visit sets one advance and moves the sequencer by one phase.
C36_OneAdvance ==
    [][(/\ phase \in {"COUNTRY_GUESS", "FLAG_GUESS", "CITY_FIND"}
        /\ \E d \in {1000, 1500, 2000} : timers' = Append(timers, Advance(d)))
       => ~advanceSet]_vars

\* an OTHER_PERSON request is answered in this step
OtherPersonAnswered ==
    /\ FollowUpResolve
    /\ \E i \in 1..Len(followUps) :
           /\ followUps[i].kind = "OTHER_PERSON"
           /\ followUps' = Remove(followUps, i)

\* C37: the answer to an OTHER_PERSON request that arrives when the phase is
\* no longer PERSON_GUESS does not run the entry behaviour of the phase that
\* is active: the wrong-guess set, the hint level, the hinted set and the
\* solved flag stay as they are, no disabled flag is enabled again and no
\* quiz is restarted.
C37_ReentersOnlyPersonGuess ==
    [][(OtherPersonAnswered /\ phase # "PERSON_GUESS") =>
           /\ wrongGuesses' = wrongGuesses
           /\ hintLevel' = hintLevel
           /\ hintedLayers' = hintedLayers
           /\ guessedCorrectly' = guessedCorrectly
           /\ flagDisabled' = flagDisabled
           /\ quizRun' = quizRun]_vars

\* the game g has the phase, the Round, the solved flag, the tracking sets,
\* the hint level and the timers of the state
Untouched(g) ==
    /\ g.phase = phase
    /\ g.currentData = currentData
    /\ g.guessedCorrectly = guessedCorrectly
    /\ g.wrongGuesses = wrongGuesses
    /\ g.hintedLayers = hintedLayers
    /\ g.hintLevel = hintLevel
    /\ g.flagDisabled = flagDisabled
    /\ g.timers = timers

\* the distances a map click is tried at
ClickDistances ==
    IF currentData = NULL THEN {0}
    ELSE Distances(currentData.city.snap_radius)

\* C38: a region click outside COUNTRY_GUESS, or in COUNTRY_GUESS once the
\* round is solved, and a map click outside CITY_FIND leave the phase, the
\* Round, the solved flag, the tracking sets and the scheduled timers as
\* they are, in INTRO and LOADING as in every other phase.
C38_ClicksOutOfPhase ==
    /\ (phase # "COUNTRY_GUESS" \/ guessedCorrectly) =>
           \A feature \in Features : Untouched(GeoClickOf(This, feature))
    /\ phase # "CITY_FIND" =>
           \A d \in ClickDistances : Untouched(MapClickOf(This, d))

\* the round is solved in COUNTRY_GUESS, its advance is pending, and a region
\* that was not tried is there to be clicked
C38_Witness ==
    /\ phase = "COUNTRY_GUESS" /\ guessedCorrectly
    /\ Pending("nextPhase") # {}
    /\ \E feature \in Features :
           /\ ~IsCorrect(currentData, feature)
           /\ feature.fid \notin wrongGuesses
           /\ GeoClickOf(This, feature) = This
    /\ \A d \in ClickDistances : MapClickOf(This, d) = This

====
